---------------------------- MODULE Spec2Model ----------------------------
(***************************************************************************)
(* Browser chat bridge of the AI call center: ChatController keeps one     *)
(* BrowserChatSessionService per browser WebSocket and each service        *)
(* bridges that socket to one OpenAI RealtimeSession.                      *)
(*                                                                         *)
(* Every Node.js event-loop callback (a WebSocket event with all of its    *)
(* listeners, the continuation of an await) is one atomic action.          *)
(*                                                                         *)
(* Beside the bridge: the server's SIGINT handling, the browser's ChatUI   *)
(* as far as it accumulates the assistant's text, and the                  *)
(* CommunicationFactory of the communication library.                      *)
(***************************************************************************)
EXTENDS Naturals, Sequences, FiniteSets

\* The browser sockets that may connect (each is accepted at most once).
Sockets == {"A", "B"}

\* Bound: inputs (client frames and upstream events) delivered to the one
\* session of SpecSolo.
MaxInputs == 3

\* Bound: inputs delivered to the two sessions of Spec together.
MaxPairInputs == 2

\* WebSocket.readyState values (only OPEN = 1 is named by the code).
OPEN == 1
CONNECTING == OPEN - 1   \* before the connection is accepted
CLOSING == OPEN + 1      \* close() called or the socket failed
CLOSED == OPEN + 2       \* the 'close' event has been emitted

\* JavaScript's undefined for an absent `content` field.
Undefined == "<undefined>"

VARIABLES
    readyState,       \* browserWebSocket.readyState of each socket
    status,           \* BrowserChatSessionService.status
    isConnected,      \* BrowserChatSessionService.isConnected
    realtimeSession,  \* BrowserChatSessionService.realtimeSession # null
    sessions,         \* keys of ChatController.sessions
    pc,               \* where handleChatStream(webSocket) stands
    upstream,         \* connection state of the RealtimeSession's transport
    toBrowser,        \* frames written to the browser socket, in order
    toUpstream,       \* events handed to transport.sendEvent, in order
    inbox,            \* history: client frames received, each with whether
                      \* the upstream was connected / still pending then
    upEvents,         \* history: events the upstream engine delivered
    approved,         \* history: approval items passed to approve()
    closeCalls,       \* history: calls of browserWebSocket.close()
    deleteCalls,      \* history: calls of sessions.delete(webSocket)
    exited,           \* process.exit() has been called
    config,           \* the ServerConfig handed to CommunicationFactory
    returned,         \* history: what validateServerConfig returned
    clientConfig,     \* the ClientConfig handed to CommunicationFactory
    createdManager,   \* history: how createManager(clientConfig) ended
    createdServer,    \* history: how createServer(config) ended
    managerConfig,    \* WebSocketManager.config (a CommunicationConfig)
    sockets,          \* the WebSockets the manager created, in order
    ws,               \* WebSocketManager.ws: index into sockets, 0 for null
    managerConnected, \* WebSocketManager.isConnected
    reconnectAttempts, \* WebSocketManager.reconnectAttempts
    reconnectTimer,   \* WebSocketManager.reconnectTimer: timer id, 0 for null
    timers,           \* ids of the reconnect timers still pending
    timersMade,       \* history: number of reconnect timers created
    reconnectsMade,   \* history: reconnects run since the last open
    connection,       \* WebSocketServer: state of each client's connection
    clients,          \* CommunicationServer.clients
    sent,             \* per client, what the latest event made the server send
    received,         \* the frame of the latest event, if it was a 'message'
    handlerCalls,     \* invocations of 'message' handlers in the latest event
    stopped,          \* WebSocketServer.stop() has been called
    sendToClientCall, \* the application's sendToClient call of the latest step
    relay,            \* which implementation relays the chat under SpecRelay
    layerReadyState,  \* BrowserChatTransportLayer.webSocket.readyState
    layerConnected,   \* BrowserChatTransportLayer.connected
    layerToBrowser,   \* frames the layer sent to its browser socket
    layerEmitted,     \* the 'message' events the layer emitted to the session
    layerInputs,      \* history: what the layer was given, in order
    assistantMessage, \* ChatUI.currentAssistantMessage of the ChatUI of SpecChatUI
    handled,          \* history: the frames that ChatUI handled, in order
    activeSessions,   \* CallChatSessionService.activeSessions (its keys)
    twilioCreated,    \* history: the sessions createTwilioSession returned
    twilioCleaned,    \* history: the sessions cleanupSession or cleanupAllSessions was called for
    variantPhase,     \* transport variant: where connectSession stands
    approvalHandlers, \* listeners of the session's tool_approval_requested, in order
    openAISession,    \* BrowserChatTransportLayer.openAISession is not null
    isConnectedToOpenAI,\* BrowserChatTransportLayer.isConnectedToOpenAI
    variantStatus,    \* BrowserChatTransportLayer.status
    requested,        \* history: the approval items the session asked approval for
    approveCalls,     \* history: the approval items approve() was called with
    uiSockets,        \* ChatUI: the state of every WebSocket it created, in order
    uiWs,             \* ChatUI.ws as an index into uiSockets
    uiReconnectAttempts,\* ChatUI.reconnectAttempts
    uiTimers,         \* ChatUI: the reconnect timers set so far
    uiReconnectTimeout,\* ChatUI.reconnectTimeout as an index into uiTimers, 0 for null
    uiDestroyed,      \* history: destroy() has been called
    uiClicks,         \* history: the clicks on the reconnect button
    emitterClass,     \* the class whose emit is exercised
    eventHandlers,    \* messageHandlers / eventHandlers: event -> handlers, in registration order
    lastEmit          \* the latest emit call: its event, the handlers it invoked, whether it threw

vars == <<readyState, status, isConnected, realtimeSession, sessions, pc,
          upstream, toBrowser, toUpstream, inbox, upEvents,
          approved, closeCalls, deleteCalls, exited, config, returned,
          clientConfig, createdManager, createdServer,
          managerConfig, sockets, ws, managerConnected, reconnectAttempts,
          reconnectTimer, timers, timersMade, reconnectsMade,
          connection, clients, sent, received, handlerCalls, stopped,
          sendToClientCall,
          relay, layerReadyState, layerConnected, layerToBrowser, layerEmitted,
          layerInputs, assistantMessage, handled,
          activeSessions, twilioCreated, twilioCleaned,
          variantPhase, approvalHandlers, openAISession, isConnectedToOpenAI, variantStatus, requested, approveCalls,
          uiSockets, uiWs, uiReconnectAttempts, uiTimers, uiReconnectTimeout, uiDestroyed, uiClicks,
          emitterClass, eventHandlers, lastEmit>>

\* The state of the chat bridge.
bridgeVars == <<readyState, status, isConnected, realtimeSession, sessions,
                pc, upstream, toBrowser, toUpstream, inbox, upEvents,
                approved, closeCalls, deleteCalls, exited>>

\* The state of the communication library, which the bridge never touches.
factoryVars == <<config, returned, clientConfig, createdManager, createdServer>>

\* The state of the client's WebSocketManager.
managerVars == <<managerConfig, sockets, ws, managerConnected,
                 reconnectAttempts, reconnectTimer, timers, timersMade,
                 reconnectsMade>>

\* The state of the library's WebSocketServer and of SimpleServer on it.
serverVars == <<connection, clients, sent, received, handlerCalls, stopped,
                sendToClientCall>>

\* The state of a BrowserChatTransportLayer.
layerVars == <<relay, layerReadyState, layerConnected, layerToBrowser,
               layerEmitted, layerInputs>>

\* The state of a ChatUI fed with frames directly.
uiVars == <<assistantMessage, handled>>

\* The state of a CallChatSessionService.
callVars == <<activeSessions, twilioCreated, twilioCleaned>>

\* The state of the transport-layer variant of the browser chat.
variantVars == <<variantPhase, approvalHandlers, openAISession,
                 isConnectedToOpenAI, variantStatus, requested, approveCalls>>

\* The connection state of a ChatUI.
chatConnVars == <<uiSockets, uiWs, uiReconnectAttempts, uiTimers, uiReconnectTimeout, uiDestroyed, uiClicks>>

\* The event handlers of a CommunicationServer or CommunicationManager.
emitVars == <<emitterClass, eventHandlers, lastEmit>>

libVars == <<factoryVars, managerVars, serverVars, layerVars, uiVars,
    callVars,
    variantVars,
    chatConnVars,
    emitVars>>

\* What the steps of one component leave alone.
otherThanFactory == <<bridgeVars, managerVars, serverVars, layerVars, uiVars,
    callVars,
    variantVars,
    chatConnVars,
    emitVars>>
otherThanManager == <<bridgeVars, factoryVars, serverVars, layerVars, uiVars,
    callVars,
    variantVars,
    chatConnVars,
    emitVars>>
otherThanServer == <<bridgeVars, factoryVars, managerVars, layerVars, uiVars,
    callVars,
    variantVars,
    chatConnVars,
    emitVars>>
otherThanLayer == <<bridgeVars, factoryVars, managerVars, serverVars, uiVars,
    callVars,
    variantVars,
    chatConnVars,
    emitVars>>
otherThanUI == <<bridgeVars, factoryVars, managerVars, serverVars, layerVars,
    callVars,
    variantVars,
    chatConnVars,
    emitVars>>
otherThanCall ==
    <<bridgeVars, factoryVars, managerVars, serverVars, layerVars, uiVars,
    variantVars,
    chatConnVars,
    emitVars>>
otherThanVariant ==
    <<bridgeVars, factoryVars, managerVars, serverVars, layerVars, uiVars, callVars,
    chatConnVars,
    emitVars>>
otherThanChatConn ==
    <<bridgeVars, factoryVars, managerVars, serverVars, layerVars, uiVars, callVars, variantVars,
    emitVars>>
otherThanEmit ==
    <<bridgeVars, factoryVars, managerVars, serverVars, layerVars, uiVars, callVars, variantVars, chatConnVars>>

-----------------------------------------------------------------------------
(* Wire formats *)

\* The raw text frames a browser may send.
RawFrames ==
    { "not json",
      "{type:ping}",
      "{type:message}",
      "{type:message,content:''}",
      "{type:message,content:'a'}",
      "{type:message,content:'b'}" }

\* JSON.parse(data.toString()): ok = FALSE stands for the SyntaxError.
JSONparse(raw) ==
    CASE raw = "{type:ping}" ->
            [ok |-> TRUE, type |-> "ping", content |-> Undefined]
      [] raw = "{type:message}" ->
            [ok |-> TRUE, type |-> "message", content |-> Undefined]
      [] raw = "{type:message,content:''}" ->
            [ok |-> TRUE, type |-> "message", content |-> ""]
      [] raw = "{type:message,content:'a'}" ->
            [ok |-> TRUE, type |-> "message", content |-> "a"]
      [] raw = "{type:message,content:'b'}" ->
            [ok |-> TRUE, type |-> "message", content |-> "b"]
      [] OTHER ->
            [ok |-> FALSE, type |-> Undefined, content |-> Undefined]

\* A variant of the truthiness test that lets the empty string pass.
TruthyIfDefined(c) == c # Undefined

\* JavaScript truthiness of message.content.
Truthy(c) == c # Undefined /\ c # ""

\* A frame for the browser: its type and its message/text payload.
Frame(type, text) == [type |-> type, text |-> text]

\* The events the upstream engine may deliver on a session.
UpstreamEventKinds ==
    { [type |-> "response.text.delta", text |-> "x"],
      [type |-> "response.text.done", text |-> "T"],
      [type |-> "error", text |-> "e"],
      [type |-> "response.done", text |-> ""],
      [type |-> "tool_approval_requested", text |-> "tool"] }

-----------------------------------------------------------------------------
(* One BrowserChatSessionService with its socket and its RealtimeSession,  *)
(* as a record, so that the methods below compose in program order.        *)

Svc(s) ==
    [ readyState      |-> readyState[s],
      status          |-> status[s],
      isConnected     |-> isConnected[s],
      realtimeSession |-> realtimeSession[s],
      upstream        |-> upstream[s],
      toBrowser       |-> toBrowser[s],
      toUpstream      |-> toUpstream[s],
      approved        |-> approved[s],
      closeCalls      |-> closeCalls[s] ]

Store(s, x) ==
    /\ readyState' = [readyState EXCEPT ![s] = x.readyState]
    /\ status' = [status EXCEPT ![s] = x.status]
    /\ isConnected' = [isConnected EXCEPT ![s] = x.isConnected]
    /\ realtimeSession' = [realtimeSession EXCEPT ![s] = x.realtimeSession]
    /\ upstream' = [upstream EXCEPT ![s] = x.upstream]
    /\ toBrowser' = [toBrowser EXCEPT ![s] = x.toBrowser]
    /\ toUpstream' = [toUpstream EXCEPT ![s] = x.toUpstream]
    /\ approved' = [approved EXCEPT ![s] = x.approved]
    /\ closeCalls' = [closeCalls EXCEPT ![s] = x.closeCalls]

\* Mutant of wsSend: the frame is written whatever the socket's state.
wsSendAlways(x, data) == [x EXCEPT !.toBrowser = Append(@, data)]

\* browserWebSocket.send(JSON.stringify(data)): the ws library drops a frame
\* sent on a socket that is no longer OPEN (it throws only while CONNECTING).
wsSend(x, data) ==
    IF x.readyState = OPEN
    THEN [x EXCEPT !.toBrowser = Append(@, data)]
    ELSE x

\* browserWebSocket.close(): starts the closing handshake of an OPEN socket.
wsClose(x) ==
    [x EXCEPT !.closeCalls = @ + 1,
              !.readyState = IF @ = OPEN THEN CLOSING ELSE @]

\* BrowserChatSessionService.sendToBrowser
sendToBrowser(x, data) ==
    IF x.status = "connected" /\ x.readyState = OPEN
    THEN wsSend(x, data)
    ELSE x

\* Mutant of disconnect: the session stays marked as connected.
disconnectKeepsConnected(x) == x

\* BrowserChatSessionService.disconnect: drops the reference, closes nothing.
disconnect(x) ==
    IF x.realtimeSession /\ x.isConnected
    THEN [x EXCEPT !.isConnected = FALSE, !.realtimeSession = FALSE]
    ELSE x

\* BrowserChatSessionService.close
close(x) ==
    IF x.status # "disconnected"
    THEN LET a == disconnect([x EXCEPT !.status = "disconnecting"])
             b == IF a.readyState = OPEN THEN wsClose(a) ELSE a
         IN  [b EXCEPT !.status = "disconnected"]
    ELSE x

\* transport.sendEvent throws when the transport's socket is not open.
sendEventThrows(x) == x.upstream # "open"

\* transport.sendEvent(ev)
sendEvent(x, ev) == [x EXCEPT !.toUpstream = Append(@, ev)]

ItemCreate(content) ==
    [type |-> "conversation.item.create", role |-> "user", text |-> content]

ResponseCreate ==
    [type |-> "response.create", role |-> "", text |-> ""]

\* Mutant of sendMessage: asks for the response before creating the item.
sendMessageResponseFirst(x, messageContent) ==
    IF ~x.realtimeSession \/ ~x.isConnected
    THEN sendToBrowser(x, Frame("error", "Not connected to OpenAI"))
    ELSE IF sendEventThrows(x)
         THEN sendToBrowser(x, Frame("error", "Failed to send message to OpenAI"))
         ELSE sendEvent(sendEvent(x, ResponseCreate), ItemCreate(messageContent))

\* Mutant of sendMessage: the connection guard is missing.
sendMessageUnguarded(x, messageContent) ==
    IF sendEventThrows(x)
    THEN sendToBrowser(x, Frame("error", "Failed to send message to OpenAI"))
    ELSE sendEvent(sendEvent(x, ItemCreate(messageContent)), ResponseCreate)

\* BrowserChatSessionService.sendMessage
sendMessage(x, messageContent) ==
    IF ~x.realtimeSession \/ ~x.isConnected
    THEN sendToBrowser(x, Frame("error", "Not connected to OpenAI"))
    ELSE IF sendEventThrows(x)
         THEN sendToBrowser(x, Frame("error", "Failed to send message to OpenAI"))
         ELSE sendEvent(sendEvent(x, ItemCreate(messageContent)), ResponseCreate)

\* Mutant of onBrowserMessage: a frame that cannot be parsed closes the
\* session.
onBrowserMessageStrict(x, raw) ==
    LET message == JSONparse(raw) IN
    IF ~message.ok
    THEN close(sendToBrowser(x, Frame("error", "Failed to parse message")))
    ELSE IF message.type = "ping"
         THEN sendToBrowser(x, Frame("pong", ""))
         ELSE IF message.type = "message" /\ Truthy(message.content)
              THEN sendMessage(x, message.content)
              ELSE x

\* Mutant of onBrowserMessage: a ping is answered only once the upstream is
\* connected.
onBrowserMessagePongWhenConnected(x, raw) ==
    LET message == JSONparse(raw) IN
    IF ~message.ok
    THEN sendToBrowser(x, Frame("error", "Failed to parse message"))
    ELSE IF message.type = "ping"
         THEN IF x.isConnected THEN sendToBrowser(x, Frame("pong", "")) ELSE x
         ELSE IF message.type = "message" /\ Truthy(message.content)
              THEN sendMessage(x, message.content)
              ELSE x

\* The 'message' listener of setupBrowserEventsHandlers.
onBrowserMessage(x, raw) ==
    LET message == JSONparse(raw) IN
    IF ~message.ok
    THEN sendToBrowser(x, Frame("error", "Failed to parse message"))
    ELSE IF message.type = "ping"
         THEN sendToBrowser(x, Frame("pong", ""))
         ELSE IF message.type = "message" /\ Truthy(message.content)
              THEN sendMessage(x, message.content)
              ELSE x

\* The 'close' listener of setupBrowserEventsHandlers.
onBrowserClose(x) == disconnect([x EXCEPT !.status = "disconnected"])

\* The 'error' listener of setupBrowserEventsHandlers.
onBrowserError(x) ==
    sendToBrowser(x, Frame("error", "WebSocket connection error"))

\* Mutant of onUpstreamEvent: an upstream error closes the session.
onUpstreamEventErrorCloses(x, ev) ==
    CASE ev.type = "response.text.delta" ->
            sendToBrowser(x, Frame("assistant.message.delta", ev.text))
      [] ev.type = "response.text.done" ->
            sendToBrowser(
                sendToBrowser(x, Frame("assistant.message", ev.text)),
                Frame("response.done", ""))
      [] ev.type = "error" ->
            close(sendToBrowser(x, Frame("error", "OpenAI API error")))
      [] ev.type = "tool_approval_requested" ->
            IF x.realtimeSession
            THEN [x EXCEPT !.approved = Append(@, ev.text)]
            ELSE x
      [] OTHER -> x

\* Mutant of onUpstreamEvent: the text of response.text.done is not relayed.
onUpstreamEventDropsText(x, ev) ==
    CASE ev.type = "response.text.delta" ->
            sendToBrowser(x, Frame("assistant.message.delta", ev.text))
      [] ev.type = "response.text.done" ->
            sendToBrowser(
                sendToBrowser(x, Frame("assistant.message", "")),
                Frame("response.done", ""))
      [] ev.type = "error" ->
            sendToBrowser(x, Frame("error", "OpenAI API error"))
      [] ev.type = "tool_approval_requested" ->
            IF x.realtimeSession
            THEN [x EXCEPT !.approved = Append(@, ev.text)]
            ELSE x
      [] OTHER -> x

\* The listeners of setupRealTimeSessionEventsHandlers; an event type without
\* a listener has no effect. this.realtimeSession?.approve(...) is skipped
\* once disconnect() has cleared the reference.
onUpstreamEvent(x, ev) ==
    CASE ev.type = "response.text.delta" ->
            sendToBrowser(x, Frame("assistant.message.delta", ev.text))
      [] ev.type = "response.text.done" ->
            sendToBrowser(
                sendToBrowser(x, Frame("assistant.message", ev.text)),
                Frame("response.done", ""))
      [] ev.type = "error" ->
            sendToBrowser(x, Frame("error", "OpenAI API error"))
      [] ev.type = "tool_approval_requested" ->
            IF x.realtimeSession
            THEN [x EXCEPT !.approved = Append(@, ev.text)]
            ELSE x
      [] OTHER -> x

-----------------------------------------------------------------------------
(* Initial state: no socket has connected yet. *)

\* A ServerConfig: `port` is meaningful only if hasPort.
NoConfig == [protocol |-> Undefined, hasPort |-> FALSE, port |-> 0]

BridgeInit ==
    /\ readyState = [s \in Sockets |-> CONNECTING]
    /\ status = [s \in Sockets |-> "disconnected"]
    /\ isConnected = [s \in Sockets |-> FALSE]
    /\ realtimeSession = [s \in Sockets |-> FALSE]
    /\ sessions = {}
    /\ pc = [s \in Sockets |-> "idle"]
    /\ upstream = [s \in Sockets |-> "none"]
    /\ toBrowser = [s \in Sockets |-> <<>>]
    /\ toUpstream = [s \in Sockets |-> <<>>]
    /\ inbox = [s \in Sockets |-> <<>>]
    /\ upEvents = [s \in Sockets |-> <<>>]
    /\ approved = [s \in Sockets |-> <<>>]
    /\ closeCalls = [s \in Sockets |-> 0]
    /\ deleteCalls = [s \in Sockets |-> 0]
    /\ exited = FALSE

\* No call of CommunicationFactory is under way.
FactoryIdle ==
    /\ config = NoConfig
    /\ returned = <<>>
    /\ clientConfig = [type |-> Undefined]
    /\ createdManager = <<>>
    /\ createdServer = <<>>

\* A WebSocketManager as its constructor leaves it, with config c.
ManagerInit(c) ==
    /\ managerConfig = c
    /\ sockets = <<>>
    /\ ws = 0
    /\ managerConnected = FALSE
    /\ reconnectAttempts = 0
    /\ reconnectTimer = 0
    /\ timers = {}
    /\ timersMade = 0
    /\ reconnectsMade = 0

\* The connections a WebSocketServer is offered.
Conns == {"c1", "c2", "c3"}

\* Nothing is sent to anybody.
Quiet == [c \in Conns |-> <<>>]

\* A WebSocketServer as start() leaves it: listening, nobody connected.
ServerInit ==
    /\ connection = [c \in Conns |-> "none"]
    /\ clients = {}
    /\ sent = Quiet
    /\ received = <<>>
    /\ handlerCalls = 0
    /\ stopped = FALSE
    /\ sendToClientCall = <<>>

\* A BrowserChatTransportLayer as its constructor leaves it, on an open
\* socket.
LayerInit ==
    /\ layerReadyState = OPEN
    /\ layerConnected = TRUE
    /\ layerToBrowser = <<>>
    /\ layerEmitted = <<>>
    /\ layerInputs = <<>>

\* A ChatUI as its constructor leaves it.
UIInit ==
    /\ assistantMessage = ""
    /\ handled = <<>>

\* A CallChatSessionService as its field initialiser leaves it.
CallInit ==
    /\ activeSessions = {}
    /\ twilioCreated = {}
    /\ twilioCleaned = {}

\* SessionService.createSession has run: the layer's constructor has set its
\* status, nothing listens on the session yet.
VariantInit ==
    /\ variantPhase = "created"
    /\ approvalHandlers = <<>>
    /\ openAISession = FALSE
    /\ isConnectedToOpenAI = FALSE
    /\ variantStatus = "connected"
    /\ requested = <<>>
    /\ approveCalls = <<>>

\* new ChatUI(): the constructor has called connectWebSocket once.
ChatConnInit ==
    /\ uiSockets = <<"connecting">>
    /\ uiWs = 1
    /\ uiReconnectAttempts = 0
    /\ uiTimers = <<>>
    /\ uiReconnectTimeout = 0
    /\ uiDestroyed = FALSE
    /\ uiClicks = 0

\* The events handlers are registered for.
EmitEvents == {"message", "connected"}

\* A new server or manager of class cls: no handler is registered.
EmitInit(cls) ==
    /\ emitterClass = cls
    /\ eventHandlers = [e \in EmitEvents |-> <<>>]
    /\ lastEmit = <<>>

\* A CommunicationConfig without maxReconnectAttempts.
NoMax == [hasMax |-> FALSE, maxReconnectAttempts |-> 0]

Init ==
    /\ BridgeInit
    /\ FactoryIdle
    /\ ManagerInit(NoMax)
    /\ ServerInit
    /\ relay = "BrowserChatSessionService"
    /\ LayerInit
    /\ UIInit
    /\ CallInit
    /\ VariantInit
    /\ ChatConnInit
    /\ EmitInit("CommunicationServer")

RECURSIVE TotalLen(_, _)
TotalLen(f, S) ==
    IF S = {} THEN 0
    ELSE LET s == CHOOSE e \in S : TRUE
         IN  Len(f[s]) + TotalLen(f, S \ {s})

-----------------------------------------------------------------------------
(* ChatController *)

\* The cleanup shared by the controller's 'close' listener, its 'error'
\* listener and its catch block: close the stored service, delete the key.
cleanup(s, x) == IF s \in sessions THEN close(x) ELSE x

\* Mutant of sessionsDelete: the whole map is cleared.
sessionsClear(s) ==
    /\ sessions' = {}
    /\ deleteCalls' = [deleteCalls EXCEPT ![s] = @ + 1]

sessionsDelete(s) ==
    /\ sessions' = sessions \ {s}
    /\ deleteCalls' = [deleteCalls EXCEPT ![s] = @ + 1]

\* Mutant of Accept: the `connected` frame is sent as soon as the socket is
\* accepted.
AcceptGreeting(s) ==
    /\ pc[s] = "idle"
    /\ Store(s, wsSend([Svc(s) EXCEPT !.readyState = OPEN,
                                      !.status = "connected",
                                      !.realtimeSession = TRUE,
                                      !.upstream = "connecting"],
                       Frame("connected", "")))
    /\ sessions' = sessions \cup {s}
    /\ pc' = [pc EXCEPT ![s] = "awaiting"]
    /\ UNCHANGED <<inbox, upEvents, deleteCalls, exited, libVars>>

\* Mutant of Accept: a socket is accepted only while no handshake is pending.
AcceptSerial(s) ==
    /\ pc[s] = "idle"
    /\ \A t \in Sockets : pc[t] # "awaiting"
    /\ Store(s, [Svc(s) EXCEPT !.readyState = OPEN,
                               !.status = "connected",
                               !.realtimeSession = TRUE,
                               !.upstream = "connecting"])
    /\ sessions' = sessions \cup {s}
    /\ pc' = [pc EXCEPT ![s] = "awaiting"]
    /\ UNCHANGED <<inbox, upEvents, deleteCalls, exited, libVars>>

\* handleChatStream up to its await: construct the service (its constructor
\* registers the socket listeners and sets status), store it, and start
\* createAndConnectSession, which suspends in realtimeSession.connect().
Accept(s) ==
    /\ pc[s] = "idle"
    /\ Store(s, [Svc(s) EXCEPT !.readyState = OPEN,
                               !.status = "connected",
                               !.realtimeSession = TRUE,
                               !.upstream = "connecting"])
    /\ sessions' = sessions \cup {s}
    /\ pc' = [pc EXCEPT ![s] = "awaiting"]
    /\ UNCHANGED <<inbox, upEvents, deleteCalls, exited, libVars>>

\* connect() resolves: the rest of createAndConnectSession and of
\* handleChatStream's try block run in the same turn.
ConnectSucceed(s) ==
    /\ pc[s] = "awaiting"
    /\ LET x1 == [Svc(s) EXCEPT !.upstream = "open", !.isConnected = TRUE]
           x2 == sendToBrowser(x1, Frame("openai_connected", ""))
           x3 == wsSend(x2, Frame("connected", ""))
       IN  Store(s, x3)
    /\ pc' = [pc EXCEPT ![s] = "serving"]
    /\ UNCHANGED <<sessions, inbox, upEvents, deleteCalls, exited, libVars>>

\* Mutant of ConnectFail: the inner catch does not tell the browser.
ConnectFailSilent(s) ==
    /\ pc[s] = "awaiting"
    /\ LET x1 == [Svc(s) EXCEPT !.upstream = "failed"]
           x3 == cleanup(s, x1)
           x4 == wsClose(x3)
       IN  Store(s, x4)
    /\ sessions' = sessions \ {s}
    /\ deleteCalls' = [deleteCalls EXCEPT ![s] = @ + 1]
    /\ pc' = [pc EXCEPT ![s] = "failed"]
    /\ UNCHANGED <<inbox, upEvents, exited, libVars>>

\* connect() rejects: the catch of createAndConnectSession rethrows into the
\* catch of handleChatStream.
ConnectFail(s) ==
    /\ pc[s] = "awaiting"
    /\ LET x1 == [Svc(s) EXCEPT !.upstream = "failed"]
           x2 == sendToBrowser(x1, Frame("error", "Failed to connect to OpenAI"))
           x3 == cleanup(s, x2)
           x4 == wsClose(x3)
       IN  Store(s, x4)
    /\ sessionsDelete(s)
    /\ pc' = [pc EXCEPT ![s] = "failed"]
    /\ UNCHANGED <<inbox, upEvents, exited, libVars>>

\* The socket emits 'message': only the service listens.
BrowserMessage(s, raw) ==
    /\ readyState[s] \in {OPEN, CLOSING}
    /\ Store(s, onBrowserMessage(Svc(s), raw))
    /\ inbox' = [inbox EXCEPT ![s] = Append(@,
                    [raw |-> raw,
                     connected |-> isConnected[s] /\ upstream[s] = "open",
                     pending |-> pc[s] = "awaiting"])]
    /\ UNCHANGED <<sessions, pc, upEvents, deleteCalls, exited, libVars>>

\* The socket emits 'error': the ws library emits it at most once, for an
\* OPEN socket, after moving the socket to CLOSING. The service's listener
\* runs, then the controller's, which exists once handleChatStream got past
\* the await.
BrowserError(s) ==
    /\ readyState[s] = OPEN
    /\ LET x1 == onBrowserError([Svc(s) EXCEPT !.readyState = CLOSING])
       IN  IF pc[s] = "serving"
           THEN Store(s, cleanup(s, x1)) /\ sessionsDelete(s)
           ELSE Store(s, x1) /\ UNCHANGED <<sessions, deleteCalls>>
    /\ UNCHANGED <<pc, inbox, upEvents, exited, libVars>>

\* The socket emits 'close' (the browser went away, or the closing handshake
\* ended): the service's listener runs, then the controller's if registered.
BrowserClose(s) ==
    /\ readyState[s] \in {OPEN, CLOSING}
    /\ LET x1 == onBrowserClose([Svc(s) EXCEPT !.readyState = CLOSED])
       IN  IF pc[s] = "serving"
           THEN Store(s, cleanup(s, x1)) /\ sessionsDelete(s)
           ELSE Store(s, x1) /\ UNCHANGED <<sessions, deleteCalls>>
    /\ UNCHANGED <<pc, inbox, upEvents, exited, libVars>>

\* The upstream transport emits an event.
UpstreamEvent(s, ev) ==
    /\ upstream[s] = "open"
    /\ Store(s, onUpstreamEvent(Svc(s), ev))
    /\ upEvents' = [upEvents EXCEPT ![s] = Append(@, ev)]
    /\ UNCHANGED <<sessions, pc, inbox, deleteCalls, exited, libVars>>

\* The upstream connection closes or is lost: the service registers no
\* listener for it, so only the transport's own state changes.
UpstreamClose(s) ==
    /\ upstream[s] = "open"
    /\ upstream' = [upstream EXCEPT ![s] = "closed"]
    /\ UNCHANGED <<readyState, status, isConnected, realtimeSession, sessions,
                   pc, toBrowser, toUpstream, inbox, upEvents,
                   approved, closeCalls, deleteCalls, exited, libVars>>

\* Inputs delivered so far, to all sessions together.
Inputs == TotalLen(inbox, Sockets) + TotalLen(upEvents, Sockets)

-----------------------------------------------------------------------------
(* One session alone, with every kind of frame and upstream event. *)

NextSolo ==
    \E s \in {"A"} :
        \/ Accept(s)
        \/ ConnectSucceed(s)
        \/ ConnectFail(s)
        \/ \E raw \in RawFrames :
              Inputs < MaxInputs /\ BrowserMessage(s, raw)
        \/ BrowserError(s)
        \/ BrowserClose(s)
        \/ \E ev \in UpstreamEventKinds :
              Inputs < MaxInputs /\ UpstreamEvent(s, ev)
        \/ UpstreamClose(s)

SpecSolo == Init /\ [][NextSolo]_vars

(* Two sessions side by side, with one kind each of ping, message and       *)
(* upstream text.                                                           *)

PairFrames == {"{type:ping}", "{type:message,content:'a'}"}

PairEvents == {[type |-> "response.text.done", text |-> "T"]}

Next ==
    \E s \in Sockets :
        \/ Accept(s)
        \/ ConnectSucceed(s)
        \/ ConnectFail(s)
        \/ \E raw \in PairFrames :
              Inputs < MaxPairInputs /\ BrowserMessage(s, raw)
        \/ BrowserError(s)
        \/ BrowserClose(s)
        \/ \E ev \in PairEvents :
              Inputs < MaxPairInputs /\ UpstreamEvent(s, ev)
        \/ UpstreamClose(s)

Spec == Init /\ [][Next]_vars

(* One session alone, relaying streamed responses of the upstream engine.   *)

\* Bound: upstream events delivered to the one session of SpecStream.
MaxStreamEvents == 3

StreamEvents ==
    { [type |-> "response.text.delta", text |-> "x"],
      [type |-> "response.text.delta", text |-> "y"],
      [type |-> "response.text.done", text |-> "T"],
      [type |-> "response.text.done", text |-> ""],
      [type |-> "response.done", text |-> ""] }

NextStream ==
    \E s \in {"A"} :
        \/ Accept(s)
        \/ ConnectSucceed(s)
        \/ ConnectFail(s)
        \/ BrowserError(s)
        \/ BrowserClose(s)
        \/ \E ev \in StreamEvents :
              Len(upEvents[s]) < MaxStreamEvents /\ UpstreamEvent(s, ev)
        \/ UpstreamClose(s)

SpecStream == Init /\ [][NextStream]_vars

(* Process shutdown of the call center server.                               *)

\* SIGINT: Server.setupGracefulShutdown calls fastify.close() without
\* awaiting it and then process.exit(0); the controller and its sessions are
\* not involved. Whether the framework gets to start the closing handshake
\* of the open sockets before the exit is its own matter (hooksRan).
Shutdown ==
    /\ ~exited
    /\ exited' = TRUE
    /\ \E hooksRan \in BOOLEAN :
          /\ readyState' =
                [s \in Sockets |->
                    IF hooksRan /\ readyState[s] = OPEN
                    THEN CLOSING ELSE readyState[s]]
          /\ closeCalls' =
                [s \in Sockets |->
                    IF hooksRan /\ readyState[s] = OPEN
                    THEN closeCalls[s] + 1 ELSE closeCalls[s]]
    /\ UNCHANGED <<status, isConnected, realtimeSession, sessions, pc,
                   upstream, toBrowser, toUpstream, inbox, upEvents,
                   approved, deleteCalls, libVars>>

\* Two sessions and the shutdown; no callback runs once the process exited.
NextShutdown ==
    \/ \E s \in Sockets : ~exited /\ Accept(s)
    \/ \E s \in Sockets : ~exited /\ ConnectSucceed(s)
    \/ \E s \in Sockets : ~exited /\ ConnectFail(s)
    \/ \E s \in Sockets : ~exited /\ BrowserError(s)
    \/ \E s \in Sockets : ~exited /\ BrowserClose(s)
    \/ \E s \in Sockets : ~exited /\ UpstreamClose(s)
    \/ Shutdown

SpecShutdown == Init /\ [][NextShutdown]_vars

-----------------------------------------------------------------------------
(* CommunicationFactory of the communication library.                       *)

\* The largest port validateServerConfig accepts.
MaxPort == 65535

\* Bound: how far the ports tried reach around 0 and around MaxPort.
PortSpan == 3

Protocols == {Undefined, "", "websocket", "webrtc", "http"}

Ports == (0 - PortSpan .. PortSpan) \cup (MaxPort - PortSpan .. MaxPort + PortSpan)

ServerConfigs ==
    { [protocol |-> p, hasPort |-> TRUE, port |-> n] : p \in Protocols, n \in Ports }
    \cup { [protocol |-> p, hasPort |-> FALSE, port |-> 0] : p \in Protocols }

\* JavaScript's !config.port
NotPort(c) == ~c.hasPort \/ c.port = 0

\* Mutant of validateServerConfig: the upper limit itself is refused.
validateServerConfigExclusive(c) ==
    IF ~Truthy(c.protocol)
    THEN FALSE
    ELSE IF NotPort(c) \/ c.port <= 0 \/ c.port >= MaxPort
         THEN FALSE
         ELSE TRUE

\* CommunicationFactory.validateServerConfig
validateServerConfig(c) ==
    IF ~Truthy(c.protocol)
    THEN FALSE
    ELSE IF NotPort(c) \/ c.port <= 0 \/ c.port > MaxPort
         THEN FALSE
         ELSE TRUE

\* The ClientConfigs, as far as createManager reads them.
ClientConfigs == { [type |-> t] : t \in Protocols }

\* How a call ended: with a return value or with a thrown Error.
Returns(v) == [threw |-> FALSE, value |-> v]

Throws(message) == [threw |-> TRUE, value |-> message]

\* A value inside a template literal.
Str(v) == IF v = Undefined THEN "undefined" ELSE v

\* Mutant of createManager: an unknown type falls back to the WebSocket case.
createManagerFallsBack(c) ==
    CASE c.type = "webrtc" -> Throws("WebRTC not implemented yet")
      [] OTHER -> Returns("null")

\* CommunicationFactory.createManager
createManager(c) ==
    CASE c.type = "websocket" -> Returns("null")
      [] c.type = "webrtc" -> Throws("WebRTC not implemented yet")
      [] OTHER -> Throws("Unsupported communication type: " \o Str(c.type))

\* CommunicationFactory.createServer
createServer(c) ==
    CASE c.protocol = "websocket" -> Returns("null")
      [] c.protocol = "webrtc" -> Throws("WebRTC server not implemented yet")
      [] OTHER -> Throws("Unsupported server type: " \o Str(c.protocol))

InitFactory ==
    /\ BridgeInit
    /\ config \in ServerConfigs
    /\ returned = <<>>
    /\ clientConfig \in ClientConfigs
    /\ createdManager = <<>>
    /\ createdServer = <<>>
    /\ ManagerInit(NoMax)
    /\ ServerInit
    /\ relay = "BrowserChatSessionService"
    /\ LayerInit
    /\ UIInit
    /\ CallInit
    /\ VariantInit
    /\ ChatConnInit
    /\ EmitInit("CommunicationServer")

\* A caller validates its config.
Validate ==
    /\ returned = <<>>
    /\ returned' = <<validateServerConfig(config)>>
    /\ UNCHANGED <<config, clientConfig, createdManager, createdServer,
                   otherThanFactory>>

\* A caller asks for a manager.
CreateManager ==
    /\ createdManager = <<>>
    /\ createdManager' = <<createManager(clientConfig)>>
    /\ UNCHANGED <<config, returned, clientConfig, createdServer, otherThanFactory>>

\* A caller asks for a server.
CreateServer ==
    /\ createdServer = <<>>
    /\ createdServer' = <<createServer(config)>>
    /\ UNCHANGED <<config, returned, clientConfig, createdManager, otherThanFactory>>

NextFactory ==
    \/ Validate
    \/ CreateManager
    \/ CreateServer

SpecFactory == InitFactory /\ [][NextFactory]_vars

-----------------------------------------------------------------------------
(* The client's WebSocketManager (WebSocketManager.ts): connect, the         *)
(* handlers it puts on each WebSocket, disconnect and the reconnect timer.   *)
(* Every connect() makes a new WebSocket whose handlers stay attached when   *)
(* this.ws moves on, so the sockets are kept in a sequence. onerror changes  *)
(* no field of the manager and is left out.                                  *)

\* Bound: the WebSockets one manager creates in a behaviour.
MaxSockets == 4

\* Bound: the largest maxReconnectAttempts a config is drawn with.
AttemptSpan == 3

\* The `|| 3` of shouldReconnect, which is also the default client config.
DefaultMaxReconnectAttempts == 3

\* The configs a manager is constructed with: maxReconnectAttempts?: number.
ManagerConfigs ==
    {NoMax} \cup {[hasMax |-> TRUE, maxReconnectAttempts |-> m] :
                    m \in 0..AttemptSpan}

\* this.config.maxReconnectAttempts || 3: undefined and 0 are both falsy.
EffectiveMax(c) ==
    IF c.hasMax /\ c.maxReconnectAttempts # 0
    THEN c.maxReconnectAttempts
    ELSE DefaultMaxReconnectAttempts

shouldReconnect == reconnectAttempts < EffectiveMax(managerConfig)

\* connect(serverUrl): a new WebSocket becomes this.ws.
connect ==
    /\ sockets' = Append(sockets, "connecting")
    /\ ws' = Len(sockets) + 1

InitManager ==
    /\ BridgeInit
    /\ FactoryIdle
    /\ \E c \in ManagerConfigs : ManagerInit(c)
    /\ ServerInit
    /\ relay = "BrowserChatSessionService"
    /\ LayerInit
    /\ UIInit
    /\ CallInit
    /\ VariantInit
    /\ ChatConnInit
    /\ EmitInit("CommunicationServer")

\* The application calls connect(serverUrl).
Connect ==
    /\ Len(sockets) < MaxSockets
    /\ connect
    /\ UNCHANGED <<managerConfig, managerConnected, reconnectAttempts,
                   reconnectTimer, timers, timersMade, reconnectsMade,
                   otherThanManager>>

\* ws.onopen of socket k.
SocketOpen(k) ==
    /\ sockets[k] = "connecting"
    /\ sockets' = [sockets EXCEPT ![k] = "open"]
    /\ managerConnected' = TRUE
    /\ reconnectAttempts' = 0
    /\ reconnectsMade' = 0
    /\ UNCHANGED <<managerConfig, ws, reconnectTimer, timers, timersMade,
                   otherThanManager>>

\* ws.onclose of socket k. A socket that never opened, or whose opening was
\* aborted by close(), closes with wasClean false.
SocketClose(k, wasClean) ==
    /\ sockets[k] \in {"connecting", "open", "closing", "aborting"}
    /\ wasClean => sockets[k] \in {"open", "closing"}
    /\ sockets' = [sockets EXCEPT ![k] = "closed"]
    /\ managerConnected' = FALSE
    /\ IF ~wasClean /\ shouldReconnect
       THEN \* scheduleReconnect
            /\ reconnectAttempts' = reconnectAttempts + 1
            /\ timersMade' = timersMade + 1
            /\ reconnectTimer' = timersMade + 1
            /\ timers' = timers \cup {timersMade + 1}
       ELSE UNCHANGED <<reconnectAttempts, timersMade, reconnectTimer, timers>>
    /\ UNCHANGED <<managerConfig, ws, reconnectsMade, otherThanManager>>

\* The callback of reconnect timer t: connect(serverUrl) again.
ReconnectTimerFires(t) ==
    /\ t \in timers
    /\ Len(sockets) < MaxSockets
    /\ timers' = timers \ {t}
    /\ connect
    /\ reconnectsMade' = reconnectsMade + 1
    /\ UNCHANGED <<managerConfig, managerConnected, reconnectAttempts,
                   reconnectTimer, timersMade, otherThanManager>>

\* The application calls disconnect().
Disconnect ==
    /\ reconnectTimer # 0 \/ ws # 0
    /\ IF reconnectTimer # 0
       THEN timers' = timers \ {reconnectTimer} /\ reconnectTimer' = 0
       ELSE UNCHANGED <<timers, reconnectTimer>>
    /\ IF ws # 0
       THEN /\ sockets' = [sockets EXCEPT ![ws] =
                             CASE @ = "connecting" -> "aborting"
                               [] @ = "open" -> "closing"
                               [] OTHER -> @]
            /\ ws' = 0
            /\ managerConnected' = FALSE
       ELSE UNCHANGED <<sockets, ws, managerConnected>>
    /\ UNCHANGED <<managerConfig, reconnectAttempts, timersMade,
                   reconnectsMade, otherThanManager>>

NextManager ==
    \/ Connect
    \/ \E k \in 1..MaxSockets : k <= Len(sockets) /\ SocketOpen(k)
    \/ \E k \in 1..MaxSockets, wasClean \in BOOLEAN :
           k <= Len(sockets) /\ SocketClose(k, wasClean)
    \/ \E t \in 1..MaxSockets : ReconnectTimerFires(t)
    \/ Disconnect

SpecManager == InitManager /\ [][NextManager]_vars

-----------------------------------------------------------------------------
(* The library's WebSocketServer (with its base class CommunicationServer)   *)
(* and the SimpleServer built on it. A connection is "none" before the       *)
(* server accepted it, "open", "closing" once the server asked it to close   *)
(* (frames of the peer still arrive), "closeReceived" once the peer's close  *)
(* frame arrived (readyState CLOSING, no frame follows) and "closed" once    *)
(* its close event has been processed. The awaits of SimpleServer's          *)
(* handlers wait on promises that are already settled, so their              *)
(* continuations run before the next socket event: each event is one step.   *)
(* sent, received and handlerCalls describe the latest event only.           *)

\* The frames a client sends, as text.
ServerFrames ==
    { "not json",
      "{type:data}",
      "{type:data,payload:{text:'hi'}}",
      "{type:data,payload:{text:'hi',broadcast:true}}",
      "{type:handshake,payload:{}}" }

\* JSON.parse(data.toString()), as far as the handlers read the result.
ServerParse(raw) ==
    CASE raw = "{type:data}" ->
           [ok |-> TRUE, type |-> "data", hasPayload |-> FALSE,
            text |-> "", broadcast |-> FALSE]
      [] raw = "{type:data,payload:{text:'hi'}}" ->
           [ok |-> TRUE, type |-> "data", hasPayload |-> TRUE,
            text |-> "hi", broadcast |-> FALSE]
      [] raw = "{type:data,payload:{text:'hi',broadcast:true}}" ->
           [ok |-> TRUE, type |-> "data", hasPayload |-> TRUE,
            text |-> "hi", broadcast |-> TRUE]
      [] raw = "{type:handshake,payload:{}}" ->
           [ok |-> TRUE, type |-> "handshake", hasPayload |-> TRUE,
            text |-> "", broadcast |-> FALSE]
      [] OTHER ->
           [ok |-> FALSE, type |-> Undefined, hasPayload |-> FALSE,
            text |-> "", broadcast |-> FALSE]

\* createMessage(type, payload, 'server', recipient), as far as it differs
\* between the messages of this server.
Message(type, event, text, from) ==
    [type |-> type, event |-> event, text |-> text, from |-> from]

\* connection.readyState === WebSocket.OPEN
IsOpen(c) == connection[c] = "open"

\* A variant of sendToClient's checks that looks the client up only.
sendToClientErrorIfUnknown(cl, c) ==
    IF c \notin cl THEN "not found" ELSE ""

\* The Error sendToClient throws before it sends, "" when it throws none.
sendToClientError(cl, c) ==
    CASE c \notin cl -> "not found"
      [] ~IsOpen(c) -> "connection not open"
      [] OTHER -> ""

\* sendToClient(clientId, message) succeeds: the client is found and open.
Sendable(cl, c) == c \in cl /\ IsOpen(c)

\* sendToClient to every client of `to`; a throw leaves that outbox alone.
sendToEach(out, cl, to, message) ==
    [c \in Conns |->
        IF c \in to /\ Sendable(cl, c) THEN Append(out[c], message) ELSE out[c]]

\* sendError(client, errorMessage)
sendError(out, c, errorMessage) ==
    IF IsOpen(c)
    THEN [out EXCEPT ![c] = Append(@, Message("error", "", errorMessage, "server"))]
    ELSE out

\* The text of the echo: message.payload.text || 'No text content'.
EchoText(text) == IF Truthy(text) THEN text ELSE "No text content"

\* A variant of handleDataMessage that broadcasts to the sender too.
handleDataMessageToAll(out, c, message) ==
    IF ~Sendable(clients, c)
    THEN out
    ELSE LET echoed == sendToEach(out, clients, {c},
                           Message("data", "echo", EchoText(message.text), "server"))
         IN  IF message.broadcast
             THEN sendToEach(echoed, clients, clients,
                      Message("data", "broadcast", message.text, c))
             ELSE echoed

\* SimpleServer.handleDataMessage: the echo, then the optional broadcast. A
\* throw of the echo's sendToClient rejects the handler before the broadcast.
handleDataMessage(out, c, message) ==
    IF ~Sendable(clients, c)
    THEN out
    ELSE LET echoed == sendToEach(out, clients, {c},
                           Message("data", "echo", EchoText(message.text), "server"))
         IN  IF message.broadcast
             THEN sendToEach(echoed, clients, clients \ {c},
                      Message("data", "broadcast", message.text, c))
             ELSE echoed

\* WebSocketServer.handleHandshakeMessage: the handshake response.
handleHandshakeMessage(out, c) ==
    sendToEach(out, clients, {c}, Message("handshake", "connected", "", "server"))

\* SimpleServer.processMessage, for the types of ServerFrames.
processMessage(out, c, message) ==
    CASE message.type = "data" -> handleDataMessage(out, c, message)
      [] OTHER -> out

\* A variant of the try block that nothing makes throw.
ParsesAnything(message) == TRUE

\* The parse and the reads of handleClientMessage's try block succeed.
Parses(message) == message.ok /\ message.hasPayload

\* CommunicationServer.getClientIds(): a client's id is its connection's name.
getClientIds == clients

\* CommunicationServer.clientCount
clientCount == Cardinality(clients)

\* A variant of removeClient that leaves the set alone.
removeClientKeeps(cl, c) == cl

\* CommunicationServer.removeClient
removeClient(cl, c) == cl \ {c}

InitServer ==
    /\ BridgeInit
    /\ FactoryIdle
    /\ ManagerInit(NoMax)
    /\ ServerInit
    /\ relay = "BrowserChatSessionService"
    /\ LayerInit
    /\ UIInit
    /\ CallInit
    /\ VariantInit
    /\ ChatConnInit
    /\ EmitInit("CommunicationServer")

\* wss 'connection': handleNewConnection, then SimpleServer's welcome to the
\* new client and its notification to the others.
ServerAccept(c) ==
    /\ ~stopped
    /\ connection[c] = "none"
    /\ connection' = [connection EXCEPT ![c] = "open"]
    /\ clients' = clients \cup {c}
    /\ LET cl == clients \cup {c}
           conn == [connection EXCEPT ![c] = "open"]
           welcomed == [Quiet EXCEPT ![c] =
                           Append(@, Message("status", "welcome", "", "server"))]
       IN  sent' = [o \in Conns |->
                      IF o \in cl \ {c} /\ conn[o] = "open"
                      THEN Append(welcomed[o],
                               Message("status", "client_connected", "", c))
                      ELSE welcomed[o]]
    /\ received' = <<>>
    /\ sendToClientCall' = <<>>
    /\ handlerCalls' = 0
    /\ UNCHANGED <<stopped, otherThanServer>>

\* ws 'message' of client c: handleClientMessage and the handler of
\* SimpleServer behind emit('message').
ServerMessage(c, raw) ==
    /\ connection[c] \in {"open", "closing"}
    /\ received' = <<[from |-> c, raw |-> raw, open |-> IsOpen(c)]>>
    /\ sendToClientCall' = <<>>
    /\ LET message == ServerParse(raw)
       IN  IF Parses(message)
           THEN /\ handlerCalls' = 1
                /\ sent' = processMessage(
                               IF message.type = "handshake"
                               THEN handleHandshakeMessage(Quiet, c)
                               ELSE Quiet,
                               c, message)
           ELSE /\ handlerCalls' = 0
                /\ sent' = sendError(Quiet, c, "Invalid message format")
    /\ UNCHANGED <<connection, clients, stopped, otherThanServer>>

\* The close frame of client c arrives: ws answers it, readyState CLOSING.
ServerCloseFrame(c) ==
    /\ connection[c] \in {"open", "closing"}
    /\ connection' = [connection EXCEPT ![c] = "closeReceived"]
    /\ sent' = Quiet
    /\ received' = <<>>
    /\ sendToClientCall' = <<>>
    /\ handlerCalls' = 0
    /\ UNCHANGED <<clients, stopped, otherThanServer>>

\* ws 'close' of client c: removeClient, then SimpleServer's notification,
\* a broadcastMessage to the clients that remain and are open.
ServerClose(c) ==
    /\ connection[c] \in {"open", "closing", "closeReceived"}
    /\ connection' = [connection EXCEPT ![c] = "closed"]
    /\ clients' = removeClient(clients, c)
    /\ sent' = sendToEach(Quiet, removeClient(clients, c), Conns \ {c},
                          Message("status", "client_disconnected", "", c))
    /\ received' = <<>>
    /\ sendToClientCall' = <<>>
    /\ handlerCalls' = 0
    /\ UNCHANGED <<stopped, otherThanServer>>

\* WebSocketServer.stop(): every open client is asked to close and the
\* server accepts no more connections.
ServerStop ==
    /\ ~stopped
    /\ stopped' = TRUE
    /\ connection' = [c \in Conns |->
                         IF c \in clients /\ IsOpen(c)
                         THEN "closing"
                         ELSE connection[c]]
    /\ sent' = Quiet
    /\ received' = <<>>
    /\ sendToClientCall' = <<>>
    /\ handlerCalls' = 0
    /\ UNCHANGED <<clients, otherThanServer>>

\* The application calls sendToClient(clientId, messageData) with the id of
\* connection c, which may be a client, a former client or no client yet.
ServerSendToClient(c) ==
    /\ sendToClientCall' = <<[to |-> c, error |-> sendToClientError(clients, c)]>>
    /\ sent' = IF sendToClientError(clients, c) = ""
               THEN [Quiet EXCEPT ![c] =
                        <<Message("data", "", "direct", "server")>>]
               ELSE Quiet
    /\ received' = <<>>
    /\ handlerCalls' = 0
    /\ UNCHANGED <<connection, clients, stopped, otherThanServer>>

NextServer ==
    \/ \E c \in Conns : ServerAccept(c)
    \/ \E c \in Conns, raw \in ServerFrames : ServerMessage(c, raw)
    \/ \E c \in Conns : ServerCloseFrame(c)
    \/ \E c \in Conns : ServerClose(c)
    \/ ServerStop
    \/ \E c \in Conns : ServerSendToClient(c)

SpecServer == InitServer /\ [][NextServer]_vars

-----------------------------------------------------------------------------
(* BrowserChatTransportLayer (browser-chat.transport.ts), the transport that *)
(* SessionService.createBrowserChatSession puts between a browser socket and *)
(* a RealtimeSession, and SpecRelay, in which a chat is relayed either by    *)
(* one BrowserChatSessionService or by one BrowserChatTransportLayer.        *)

\* Bound: the frames and upstream messages given to the relay of SpecRelay.
MaxRelayInputs == 2

Relays == {"BrowserChatSessionService", "BrowserChatTransportLayer"}

\* The frames the browser sends under SpecRelay.
RelayFrames ==
    { "not json",
      "{type:ping}",
      "{type:message,content:''}",
      "{type:message,content:'a'}" }

\* The upstream events and messages under SpecRelay; nothing in the server
\* knows the type session.updated.
RelayEvents ==
    { [type |-> "response.text.delta", text |-> "x"],
      [type |-> "response.text.done", text |-> "T"],
      [type |-> "response.done", text |-> ""],
      [type |-> "error", text |-> "e"],
      [type |-> "session.updated", text |-> ""] }

\* The event types BrowserChatSessionService registers a listener for.
ServiceListensTo ==
    {"response.text.delta", "response.text.done", "error",
     "tool_approval_requested"}

\* The cases of the switch in BrowserChatTransportLayer.send.
LayerHandles ==
    {"response.audio_transcript.delta", "response.text.delta",
     "response.audio_transcript.done", "response.text.done",
     "response.done", "error", "conversation.item.created"}

\* BrowserChatTransportLayer.sendToBrowser
layerSendToBrowser(q, data) ==
    IF layerConnected /\ layerReadyState = OPEN THEN Append(q, data) ELSE q

\* A variant of send with a default case that reports the unknown type.
layerSendReportsUnknown(message) ==
    CASE message.type = "response.text.delta" ->
            layerSendToBrowser(layerToBrowser, Frame("text.delta", message.text))
      [] message.type = "response.text.done" ->
            layerSendToBrowser(layerToBrowser, Frame("text.done", message.text))
      [] message.type = "response.done" ->
            layerSendToBrowser(layerToBrowser, Frame("response.done", ""))
      [] message.type = "error" ->
            layerSendToBrowser(layerToBrowser, Frame("error", message.text))
      [] OTHER ->
            layerSendToBrowser(layerToBrowser, Frame("error", message.type))

\* BrowserChatTransportLayer.send(message), for the messages of RelayEvents:
\* the frames sent to the browser afterwards.
layerSend(message) ==
    CASE message.type = "response.text.delta" ->
            layerSendToBrowser(layerToBrowser, Frame("text.delta", message.text))
      [] message.type = "response.text.done" ->
            layerSendToBrowser(layerToBrowser, Frame("text.done", message.text))
      [] message.type = "response.done" ->
            layerSendToBrowser(layerToBrowser, Frame("response.done", ""))
      [] message.type = "error" ->
            layerSendToBrowser(layerToBrowser, Frame("error", message.text))
      [] OTHER -> layerToBrowser

\* The layer's 'message' listener: what it has emitted to the session
\* afterwards.
layerOnMessage(raw) ==
    LET message == JSONparse(raw) IN
    IF message.ok /\ message.type = "message" /\ Truthy(message.content)
    THEN layerEmitted \o <<ItemCreate(message.content), ResponseCreate>>
    ELSE layerEmitted

InitRelay ==
    /\ BridgeInit
    /\ FactoryIdle
    /\ ManagerInit(NoMax)
    /\ ServerInit
    /\ relay \in Relays
    /\ LayerInit
    /\ UIInit
    /\ CallInit
    /\ VariantInit
    /\ ChatConnInit
    /\ EmitInit("CommunicationServer")

\* The layer's socket emits 'message'.
LayerBrowserMessage(raw) ==
    /\ layerReadyState \in {OPEN, CLOSING}
    /\ layerInputs' = Append(layerInputs, [from |-> "browser", what |-> raw])
    /\ layerEmitted' = layerOnMessage(raw)
    /\ layerToBrowser' =
          IF JSONparse(raw).ok /\ JSONparse(raw).type = "ping"
          THEN layerSendToBrowser(layerToBrowser, Frame("pong", ""))
          ELSE layerToBrowser
    /\ UNCHANGED <<relay, layerReadyState, layerConnected, otherThanLayer>>

\* The RealtimeSession calls transport.send(message).
LayerSend(message) ==
    /\ layerInputs' = Append(layerInputs,
                             [from |-> "upstream", what |-> message.type])
    /\ layerToBrowser' = layerSend(message)
    /\ UNCHANGED <<relay, layerReadyState, layerConnected, layerEmitted,
                   otherThanLayer>>

\* The layer's socket emits 'close'.
LayerSocketClose ==
    /\ layerReadyState \in {OPEN, CLOSING}
    /\ layerReadyState' = CLOSED
    /\ layerConnected' = FALSE
    /\ UNCHANGED <<relay, layerToBrowser, layerEmitted, layerInputs,
                   otherThanLayer>>

\* The layer's socket emits 'error': the layer only passes it on.
LayerSocketError ==
    /\ layerReadyState = OPEN
    /\ layerReadyState' = CLOSING
    /\ UNCHANGED <<relay, layerConnected, layerToBrowser, layerEmitted,
                   layerInputs, otherThanLayer>>

\* BrowserChatTransportLayer.close()
LayerClose ==
    /\ layerConnected
    /\ layerConnected' = FALSE
    /\ layerReadyState' = IF layerReadyState = OPEN THEN CLOSING ELSE layerReadyState
    /\ UNCHANGED <<relay, layerToBrowser, layerEmitted, layerInputs,
                   otherThanLayer>>

\* Inputs given so far to the relay of SpecRelay.
RelayInputs == Inputs + Len(layerInputs)

ByService == relay = "BrowserChatSessionService"

ByLayer == relay = "BrowserChatTransportLayer"

NextRelay ==
    \/ ByService /\ Accept("A")
    \/ ByService /\ ConnectSucceed("A")
    \/ ByService /\ ConnectFail("A")
    \/ \E raw \in RelayFrames :
          ByService /\ RelayInputs < MaxRelayInputs /\ BrowserMessage("A", raw)
    \/ ByService /\ BrowserError("A")
    \/ ByService /\ BrowserClose("A")
    \/ \E ev \in RelayEvents :
          ByService /\ RelayInputs < MaxRelayInputs /\ UpstreamEvent("A", ev)
    \/ ByService /\ UpstreamClose("A")
    \/ \E raw \in RelayFrames :
          ByLayer /\ RelayInputs < MaxRelayInputs /\ LayerBrowserMessage(raw)
    \/ \E message \in RelayEvents :
          ByLayer /\ RelayInputs < MaxRelayInputs /\ LayerSend(message)
    \/ ByLayer /\ LayerSocketClose
    \/ ByLayer /\ LayerSocketError
    \/ ByLayer /\ LayerClose

SpecRelay == InitRelay /\ [][NextRelay]_vars

-----------------------------------------------------------------------------
(* The browser side: ChatUI of chat.ts, as far as it keeps the assistant's  *)
(* text. Its state is determined by the frames it has been delivered.       *)

\* message.delta: the frames of this server carry no `delta` field.
DeltaOf(message) ==
    IF "delta" \in DOMAIN message THEN message.delta ELSE Undefined

\* A variant of handleServerMessage whose `error` case resets the text.
handleServerMessageErrorResets(currentAssistantMessage, message) ==
    CASE message.type = "text.delta" ->
            IF Truthy(DeltaOf(message))
            THEN currentAssistantMessage \o DeltaOf(message)
            ELSE currentAssistantMessage
      [] message.type \in {"text.done", "assistant.message"} ->
            IF Truthy(message.text)
            THEN message.text
            ELSE currentAssistantMessage
      [] message.type \in {"response.done", "error"} -> ""
      [] OTHER -> currentAssistantMessage

\* ChatUI.handleServerMessage, on currentAssistantMessage.
handleServerMessage(currentAssistantMessage, message) ==
    CASE message.type = "text.delta" ->
            IF Truthy(DeltaOf(message))
            THEN currentAssistantMessage \o DeltaOf(message)
            ELSE currentAssistantMessage
      [] message.type \in {"text.done", "assistant.message"} ->
            IF Truthy(message.text)
            THEN message.text
            ELSE currentAssistantMessage
      [] message.type = "response.done" -> ""
      [] OTHER -> currentAssistantMessage

\* currentAssistantMessage after the frames of q were handled in order,
\* starting from the empty text of a fresh ChatUI.
RECURSIVE currentAssistantMessage(_)
currentAssistantMessage(q) ==
    IF q = <<>> THEN ""
    ELSE handleServerMessage(currentAssistantMessage(SubSeq(q, 1, Len(q) - 1)),
                             q[Len(q)])

(* A ChatUI alone, fed with the frames its switch knows. *)

\* Bound: the frames delivered to the ChatUI of SpecChatUI.
MaxUIFrames == 4

\* A text.delta frame, which carries `delta` instead of `text`.
DeltaFrame(delta) == [type |-> "text.delta", text |-> Undefined, delta |-> delta]

\* The ServerMessages delivered to the ChatUI of SpecChatUI.
UIFrames ==
    { Frame("pong", ""),
      DeltaFrame("x"),
      DeltaFrame(""),
      Frame("text.done", "U"),
      Frame("assistant.message", "T"),
      Frame("response.done", ""),
      Frame("error", "e") }

InitChatUI ==
    /\ BridgeInit
    /\ FactoryIdle
    /\ ManagerInit(NoMax)
    /\ ServerInit
    /\ relay = "BrowserChatSessionService"
    /\ LayerInit
    /\ UIInit
    /\ CallInit
    /\ VariantInit
    /\ ChatConnInit
    /\ EmitInit("CommunicationServer")

\* ws.onmessage of the ChatUI: handleServerMessage(JSON.parse(event.data)).
UIServerMessage(message) ==
    /\ Len(handled) < MaxUIFrames
    /\ assistantMessage' = handleServerMessage(assistantMessage, message)
    /\ handled' = Append(handled, message)
    /\ UNCHANGED otherThanUI

\* ChatUI.handleSend with a non-empty input: the accumulator is reset.
UIHandleSend ==
    /\ assistantMessage' = ""
    /\ UNCHANGED <<handled, otherThanUI>>

NextChatUI ==
    \/ \E message \in UIFrames : UIServerMessage(message)
    \/ UIHandleSend

SpecChatUI == InitChatUI /\ [][NextChatUI]_vars

-----------------------------------------------------------------------------
(* CallChatSessionService (call-chat-session.service.ts): the sessions it    *)
(* creates for Twilio calls and the map it reports on.                       *)

\* The Twilio sessions of one service, by the id cleanupSession names them by.
TwilioSessions == {"t1", "t2", "t3", "t4", "t5"}

\* CallChatSessionService.getActiveSessionCount
getActiveSessionCount == Cardinality(activeSessions)

InitCall ==
    /\ BridgeInit
    /\ FactoryIdle
    /\ ManagerInit(NoMax)
    /\ ServerInit
    /\ relay = "BrowserChatSessionService"
    /\ LayerInit
    /\ UIInit
    /\ CallInit
    /\ VariantInit
    /\ ChatConnInit
    /\ EmitInit("CommunicationServer")

\* createTwilioSession(agent, twilioWebSocket, config): builds the transport
\* and the RealtimeSession and returns it; activeSessions is not written.
CreateTwilioSession(t) ==
    /\ t \notin twilioCreated
    /\ twilioCreated' = twilioCreated \cup {t}
    /\ UNCHANGED <<activeSessions, twilioCleaned, otherThanCall>>

\* cleanupSession(sessionId)
CleanupSession(t) ==
    /\ activeSessions' = activeSessions \ {t}
    /\ twilioCleaned' = twilioCleaned \cup ({t} \cap twilioCreated)
    /\ UNCHANGED <<twilioCreated, otherThanCall>>

\* cleanupAllSessions()
CleanupAllSessions ==
    /\ activeSessions' = {}
    /\ twilioCleaned' = twilioCreated
    /\ UNCHANGED <<twilioCreated, otherThanCall>>

NextCall ==
    \/ \E t \in TwilioSessions : CreateTwilioSession(t)
    \/ \E t \in TwilioSessions : CleanupSession(t)
    \/ CleanupAllSessions

SpecCall == InitCall /\ [][NextCall]_vars

-----------------------------------------------------------------------------
(* The transport-layer variant of the browser chat: SessionService           *)
(* (session.service.ts) with the BrowserChatTransportLayer of                *)
(* browser-chat.transport.ts, as far as tool approvals go.                   *)

\* Bound: the approval requests a session raises in a behaviour.
MaxApprovalRequests == 4

\* The approval items a request may carry.
ApprovalItems == {"item1", "item2"}

\* The approve() calls one handler makes for a request: the layer's handler
\* calls this.openAISession?.approve, SessionService's calls approve on the
\* session it closed over.
approveBy(handler, item) ==
    IF handler = "BrowserChatTransportLayer" /\ ~openAISession
    THEN <<>>
    ELSE <<item>>

\* emit('tool_approval_requested', ...): every listener runs, in order.
RECURSIVE approveByAll(_, _)
approveByAll(handlers, item) ==
    IF handlers = <<>> THEN <<>>
    ELSE approveBy(Head(handlers), item) \o approveByAll(Tail(handlers), item)

InitVariant ==
    /\ BridgeInit
    /\ FactoryIdle
    /\ ManagerInit(NoMax)
    /\ ServerInit
    /\ relay = "BrowserChatSessionService"
    /\ LayerInit
    /\ UIInit
    /\ CallInit
    /\ VariantInit
    /\ ChatConnInit
    /\ EmitInit("CommunicationServer")

\* SessionService.connectSession up to the await inside connectToOpenAI:
\* setupEventHandlers(session), then the layer stores the session and runs
\* setupOpenAIEventHandlers.
VariantConnectSession ==
    /\ variantPhase = "created"
    /\ variantPhase' = "connecting"
    /\ approvalHandlers' =
          approvalHandlers \o <<"SessionService", "BrowserChatTransportLayer">>
    /\ openAISession' = TRUE
    /\ UNCHANGED <<isConnectedToOpenAI, variantStatus, requested, approveCalls,
                   otherThanVariant>>

\* session.connect resolves.
VariantConnectSucceed ==
    /\ variantPhase = "connecting"
    /\ variantPhase' = "connected"
    /\ isConnectedToOpenAI' = TRUE
    /\ UNCHANGED <<approvalHandlers, openAISession, variantStatus, requested,
                   approveCalls, otherThanVariant>>

\* session.connect rejects.
VariantConnectFail ==
    /\ variantPhase = "connecting"
    /\ variantPhase' = "failed"
    /\ UNCHANGED <<approvalHandlers, openAISession, isConnectedToOpenAI,
                   variantStatus, requested, approveCalls, otherThanVariant>>

\* The browser socket emits 'close': status, then disconnectFromOpenAI.
VariantBrowserClose ==
    /\ variantStatus = "connected"
    /\ variantStatus' = "disconnected"
    /\ IF openAISession /\ isConnectedToOpenAI
       THEN isConnectedToOpenAI' = FALSE /\ openAISession' = FALSE
       ELSE UNCHANGED <<isConnectedToOpenAI, openAISession>>
    /\ UNCHANGED <<variantPhase, approvalHandlers, requested, approveCalls,
                   otherThanVariant>>

\* The connected session emits tool_approval_requested for an item.
VariantApprovalRequested(item) ==
    /\ variantPhase = "connected"
    /\ Len(requested) < MaxApprovalRequests
    /\ requested' = Append(requested, item)
    /\ approveCalls' = approveCalls \o approveByAll(approvalHandlers, item)
    /\ UNCHANGED <<variantPhase, approvalHandlers, openAISession,
                   isConnectedToOpenAI, variantStatus, otherThanVariant>>

NextVariant ==
    \/ VariantConnectSession
    \/ VariantConnectSucceed
    \/ VariantConnectFail
    \/ VariantBrowserClose
    \/ \E item \in ApprovalItems : VariantApprovalRequested(item)

SpecVariant == InitVariant /\ [][NextVariant]_vars

-----------------------------------------------------------------------------
(* The connection handling of the ChatUI (chat.ts): connectWebSocket, the    *)
(* socket's onopen and onclose, attemptReconnect, the reconnect button and   *)
(* destroy.                                                                  *)

\* Bound: the WebSockets a ChatUI creates in a behaviour.
MaxUISockets == 7

\* Bound: the clicks on the reconnect button in a behaviour.
MaxUIClicks == 1

\* ChatUI.maxReconnectAttempts
maxReconnectAttempts == 5

\* Math.min(1000 * Math.pow(2, n), 30000)
reconnectDelay(n) ==
    IF 1000 * 2^n < 30000 THEN 1000 * 2^n ELSE 30000

\* A socket that has not reached CLOSED still delivers its events.
UILive(k) == uiSockets[k] \in {"connecting", "open", "closing"}

\* The timers that have neither fired nor been cleared.
UIPendingTimers == {t \in 1..Len(uiTimers) : uiTimers[t].state = "pending"}

\* ChatUI.connectWebSocket: returns only if this.ws is OPEN, otherwise
\* replaces this.ws by a new socket; the previous socket is left as it is.
connectWebSocket ==
    IF uiWs # 0 /\ uiSockets[uiWs] = "open"
    THEN UNCHANGED <<uiSockets, uiWs>>
    ELSE /\ uiSockets' = Append(uiSockets, "connecting")
         /\ uiWs' = Len(uiSockets) + 1

\* Mutant of attemptReconnect: the attempts are not limited.
attemptReconnectUnlimited ==
    /\ uiReconnectAttempts' = uiReconnectAttempts + 1
    /\ uiTimers' = Append(uiTimers,
                      [attempt |-> uiReconnectAttempts + 1,
                       delay |-> reconnectDelay(uiReconnectAttempts + 1),
                       state |-> "pending"])
    /\ uiReconnectTimeout' = Len(uiTimers) + 1

\* ChatUI.attemptReconnect
attemptReconnect ==
    IF uiReconnectAttempts >= maxReconnectAttempts
    THEN UNCHANGED <<uiReconnectAttempts, uiTimers, uiReconnectTimeout>>
    ELSE /\ uiReconnectAttempts' = uiReconnectAttempts + 1
         /\ uiTimers' = Append(uiTimers,
                           [attempt |-> uiReconnectAttempts + 1,
                            delay |-> reconnectDelay(uiReconnectAttempts + 1),
                            state |-> "pending"])
         /\ uiReconnectTimeout' = Len(uiTimers) + 1

InitChatConn ==
    /\ BridgeInit
    /\ FactoryIdle
    /\ ManagerInit(NoMax)
    /\ ServerInit
    /\ relay = "BrowserChatSessionService"
    /\ LayerInit
    /\ UIInit
    /\ CallInit
    /\ VariantInit
    /\ ChatConnInit
    /\ EmitInit("CommunicationServer")

\* A click on the reconnect button: connectWebSocket.
UIReconnectClick ==
    /\ uiClicks < MaxUIClicks
    /\ Len(uiSockets) < MaxUISockets
    /\ uiClicks' = uiClicks + 1
    /\ connectWebSocket
    /\ UNCHANGED <<uiReconnectAttempts, uiTimers, uiReconnectTimeout,
                   uiDestroyed, otherThanChatConn>>

\* ws.onopen of socket k: the attempts start again at 0.
UISocketOpen(k) ==
    /\ uiSockets[k] = "connecting"
    /\ uiSockets' = [uiSockets EXCEPT ![k] = "open"]
    /\ uiReconnectAttempts' = 0
    /\ UNCHANGED <<uiWs, uiTimers, uiReconnectTimeout, uiDestroyed, uiClicks,
                   otherThanChatConn>>

\* ws.onclose of socket k (after a failed connect, a close by the server or
\* the ChatUI's own close()): attemptReconnect.
UISocketClose(k) ==
    /\ UILive(k)
    /\ uiSockets' = [uiSockets EXCEPT ![k] = "closed"]
    /\ attemptReconnect
    /\ UNCHANGED <<uiWs, uiDestroyed, uiClicks, otherThanChatConn>>

\* The reconnect timer t fires: connectWebSocket.
UITimerFires(t) ==
    /\ uiTimers[t].state = "pending"
    /\ Len(uiSockets) < MaxUISockets
    /\ uiTimers' = [uiTimers EXCEPT ![t].state = "fired"]
    /\ connectWebSocket
    /\ UNCHANGED <<uiReconnectAttempts, uiReconnectTimeout, uiDestroyed,
                   uiClicks, otherThanChatConn>>

\* ChatUI.destroy: clearTimeout(this.reconnectTimeout), this.ws.close().
UIDestroy ==
    /\ ~uiDestroyed
    /\ uiDestroyed' = TRUE
    /\ uiTimers' =
          IF uiReconnectTimeout # 0
                /\ uiTimers[uiReconnectTimeout].state = "pending"
          THEN [uiTimers EXCEPT ![uiReconnectTimeout].state = "cleared"]
          ELSE uiTimers
    /\ uiSockets' =
          IF uiWs # 0 /\ uiSockets[uiWs] \in {"connecting", "open"}
          THEN [uiSockets EXCEPT ![uiWs] = "closing"]
          ELSE uiSockets
    /\ UNCHANGED <<uiWs, uiReconnectAttempts, uiReconnectTimeout, uiClicks,
                   otherThanChatConn>>

NextChatConn ==
    \/ UIReconnectClick
    \/ \E k \in 1..Len(uiSockets) : UISocketOpen(k)
    \/ \E k \in 1..Len(uiSockets) : UISocketClose(k)
    \/ \E t \in 1..Len(uiTimers) : UITimerFires(t)
    \/ UIDestroy

SpecChatConn == InitChatConn /\ [][NextChatConn]_vars

-----------------------------------------------------------------------------
(* The event registry of the library's base classes: addEventHandler and     *)
(* emit of CommunicationServer (server.ts) and of CommunicationManager       *)
(* (WebSocketManager.ts).                                                    *)

\* Bound: the handlers registered for one event.
MaxHandlers == 2

\* The functions an application registers; "bad" throws when it is called.
HandlerFns == {"ok1", "ok2", "bad"}

\* handler(data) throws.
HandlerThrows(h) == h = "bad"

\* A forEach over the handlers without the try/catch around each call: the
\* first throw ends the loop and leaves emit.
RECURSIVE emitUncaught(_, _, _)
emitUncaught(handlers, invoked, caught) ==
    IF handlers = <<>>
    THEN [invoked |-> invoked, caught |-> caught, threw |-> FALSE]
    ELSE IF HandlerThrows(Head(handlers))
         THEN [invoked |-> Append(invoked, Head(handlers)),
               caught |-> caught, threw |-> TRUE]
         ELSE emitUncaught(Tail(handlers), Append(invoked, Head(handlers)),
                           caught)

\* CommunicationServer.emit: handlers.forEach with a try/catch around each
\* call; the catch logs the error and the loop goes on.
RECURSIVE serverEmit(_, _, _)
serverEmit(handlers, invoked, caught) ==
    IF handlers = <<>>
    THEN [invoked |-> invoked, caught |-> caught, threw |-> FALSE]
    ELSE serverEmit(Tail(handlers), Append(invoked, Head(handlers)),
                    IF HandlerThrows(Head(handlers))
                    THEN caught + 1
                    ELSE caught)

\* CommunicationManager.emit: the same loop on eventHandlers.
RECURSIVE managerEmit(_, _, _)
managerEmit(handlers, invoked, caught) ==
    IF handlers = <<>>
    THEN [invoked |-> invoked, caught |-> caught, threw |-> FALSE]
    ELSE managerEmit(Tail(handlers), Append(invoked, Head(handlers)),
                     IF HandlerThrows(Head(handlers))
                     THEN caught + 1
                     ELSE caught)

\* emit(event, data) of the class under test.
emit(handlers) ==
    IF emitterClass = "CommunicationServer"
    THEN serverEmit(handlers, <<>>, 0)
    ELSE managerEmit(handlers, <<>>, 0)

InitEmit ==
    /\ BridgeInit
    /\ FactoryIdle
    /\ ManagerInit(NoMax)
    /\ ServerInit
    /\ relay = "BrowserChatSessionService"
    /\ LayerInit
    /\ UIInit
    /\ CallInit
    /\ VariantInit
    /\ ChatConnInit
    /\ \E cls \in {"CommunicationServer", "CommunicationManager"} : EmitInit(cls)

\* addEventHandler(event, handler): push, with no check for duplicates.
AddEventHandler(e, h) ==
    /\ Len(eventHandlers[e]) < MaxHandlers
    /\ eventHandlers' = [eventHandlers EXCEPT ![e] = Append(@, h)]
    /\ lastEmit' = <<>>
    /\ UNCHANGED <<emitterClass, otherThanEmit>>

\* emit(event, data)
Emit(e) ==
    /\ lastEmit' = <<[event |-> e,
                      invoked |-> emit(eventHandlers[e]).invoked,
                      caught |-> emit(eventHandlers[e]).caught,
                      threw |-> emit(eventHandlers[e]).threw]>>
    /\ UNCHANGED <<emitterClass, eventHandlers, otherThanEmit>>

NextEmit ==
    \/ \E e \in EmitEvents, h \in HandlerFns : AddEventHandler(e, h)
    \/ \E e \in EmitEvents : Emit(e)

SpecEmit == InitEmit /\ [][NextEmit]_vars

-----------------------------------------------------------------------------
(* Properties *)

\* A `message` frame with non-empty content.
IsUserText(raw) ==
    raw \in {"{type:message,content:'a'}", "{type:message,content:'b'}"}

ContentOf(raw) == IF raw = "{type:message,content:'a'}" THEN "a" ELSE "b"

\* The upstream events the given inbox entries call for: per entry a
\* conversation.item.create with its content, then a response.create.
RECURSIVE PairsOf(_)
PairsOf(q) ==
    IF q = <<>> THEN <<>>
    ELSE << [type |-> "conversation.item.create", role |-> "user",
             text |-> ContentOf(Head(q).raw)],
            [type |-> "response.create", role |-> "", text |-> ""] >>
         \o PairsOf(Tail(q))

WhileConnected(f) == IsUserText(f.raw) /\ f.connected

\* C1: the upstream receives, for the message frames with non-empty content
\* that arrived while the session's upstream was connected, one
\* conversation.item.create (role user, that content) immediately followed
\* by one response.create each, in the arrival order of the frames, and
\* nothing else.
C1_PairsInArrivalOrder ==
    \A s \in Sockets :
        toUpstream[s] = PairsOf(SelectSeq(inbox[s], WhileConnected))

\* C1 witness: two messages with different contents were forwarded.
C1_Witness ==
    \E s \in Sockets :
        /\ Len(toUpstream[s]) = 4
        /\ toUpstream[s][1].text = "b"
        /\ toUpstream[s][3].text = "a"

\* A session object exists for the socket and is not closed.
NotClosed(s) == pc[s] # "idle" /\ status[s] # "disconnected"

\* C2 (as claimed): the registry holds exactly the sessions that are not
\* closed, so its size equals their number.
C2_RegistryCountsOpenSessions ==
    /\ Cardinality(sessions) = Cardinality({s \in Sockets : NotClosed(s)})
    /\ sessions = {s \in Sockets : NotClosed(s)}

\* C3 (as claimed): once the client socket has closed, the session's upstream
\* is neither connected nor still connecting, and the session does not count
\* itself connected.
C3_NoUpstreamAfterClientClose ==
    \A s \in Sockets :
        readyState[s] = CLOSED =>
            /\ ~isConnected[s]
            /\ upstream[s] \notin {"connecting", "open"}


\* The entry a step appends to a socket's inbox.
Received(s) == inbox'[s][Len(inbox'[s])]

Receives(s) == Len(inbox'[s]) = Len(inbox[s]) + 1

\* The service can write to its browser socket.
CanSend(s) == status[s] = "connected" /\ readyState[s] = OPEN

WhilePendingOrConnected(f) == IsUserText(f.raw) /\ (f.pending \/ f.connected)

HasType(ty, q) == {i \in DOMAIN q : q[i].type = ty}

NoContent == {"{type:message}", "{type:message,content:''}"}

\* The lifecycle state of a session: socket, service flags, registry entry.
Lifecycle(s) ==
    <<readyState[s], status[s], isConnected[s], realtimeSession[s],
      upstream[s], pc[s], s \in sessions>>

TornDown(s) == pc[s] # "idle" /\ status[s] = "disconnected"

\* C7 (as claimed): however many teardown triggers fired on a session whose
\* handshake is over, it was deregistered by exactly one call and is out of
\* the registry, and both of its handles have been released: the client
\* socket is not open and the upstream connection is not up.
C7_TeardownReleasesOnce ==
    \A s \in Sockets :
        (TornDown(s) /\ pc[s] \in {"serving", "failed"}) =>
            /\ deleteCalls[s] = 1
            /\ s \notin sessions
            /\ readyState[s] # OPEN
            /\ upstream[s] \notin {"connecting", "open"}

\* Everything that belongs to one session.
Sess(s) ==
    <<readyState[s], status[s], isConnected[s], realtimeSession[s],
      upstream[s], pc[s], s \in sessions, toBrowser[s], toUpstream[s],
      inbox[s], upEvents[s], approved[s], closeCalls[s], deleteCalls[s]>>

\* C8: every step is one session's own event and changes that session
\* alone: frames reach a client only in a step in which its own session
\* received a frame, an upstream event or its connect result, and closing
\* one session leaves the other's status, upstream connection and registry
\* entry as they were.
C8_Isolation ==
    [][\A a, b \in Sockets :
        a # b =>
          /\ ~(Sess(a)' # Sess(a) /\ Sess(b)' # Sess(b))
          /\ toBrowser'[a] # toBrowser[a]
                => /\ \/ inbox'[a] # inbox[a]
                      \/ upEvents'[a] # upEvents[a]
                      \/ pc'[a] # pc[a]
                   /\ inbox'[b] = inbox[b]
                   /\ upEvents'[b] = upEvents[b]
          /\ (status[a] # "disconnected" /\ status'[a] = "disconnected")
                => /\ status'[b] = status[b]
                   /\ isConnected'[b] = isConnected[b]
                   /\ upstream'[b] = upstream[b]
                   /\ (b \in sessions') = (b \in sessions)
      ]_vars

\* C8 witness: both sessions were active, one forwarded a message and the
\* other relayed an upstream reply; the first is closed and the second is
\* still connected and registered.
C8_Witness ==
    \E a, b \in Sockets :
        /\ a # b
        /\ toUpstream[a] # <<>>
        /\ HasType("assistant.message", toBrowser[b]) # {}
        /\ pc[a] = "serving" /\ status[a] = "disconnected"
        /\ readyState[a] = CLOSED
        /\ status[b] = "connected" /\ isConnected[b]
        /\ readyState[b] = OPEN
        /\ sessions = {b}

\* C9: when the upstream connect fails, the client whose socket is still
\* open is sent the error frame and its socket is then asked to close; the session
\* was never connected upstream and never becomes so, the socket is not open
\* any more, and the session is out of the registry for good.
C9_FailedHandshake ==
    [][\A s \in Sockets :
        /\ (pc[s] = "awaiting" /\ pc'[s] = "failed")
              => /\ ~isConnected[s]
                 /\ readyState[s] = OPEN
                       => /\ toBrowser'[s] =
                               Append(toBrowser[s],
                                   [type |-> "error",
                                    text |-> "Failed to connect to OpenAI"])
                          /\ readyState'[s] = CLOSING
                 /\ closeCalls'[s] > closeCalls[s]
        /\ pc'[s] = "failed"
              => /\ ~isConnected'[s]
                 /\ upstream'[s] = "failed"
                 /\ readyState'[s] # OPEN
                 /\ status'[s] = "disconnected"
                 /\ s \notin sessions'
      ]_vars

\* C9 witness: a connect failed on an open socket; the client has the error
\* frame as its only frame, the socket has closed, the registry is empty.
C9_Witness ==
    \E s \in Sockets :
        /\ pc[s] = "failed"
        /\ toBrowser[s] =
              <<[type |-> "error", text |-> "Failed to connect to OpenAI"]>>
        /\ readyState[s] = CLOSED
        /\ s \notin sessions

\* C10 (as claimed): a session whose upstream connection has closed or was
\* lost has told its client with an error frame and no longer has an open
\* client socket.
C10_ClientClosedWithUpstream ==
    \A s \in Sockets :
        upstream[s] = "closed" =>
            /\ readyState[s] # OPEN
            /\ HasType("error", toBrowser[s]) # {}


\* C11 (as claimed): once a session has been closed, no later step changes
\* its status or marks it connected to the upstream again.
C11_ClosedIsFinal ==
    [][\A s \in Sockets :
        TornDown(s) => /\ status'[s] = "disconnected"
                       /\ isConnected'[s] = isConnected[s]
      ]_vars

\* C12: a ping frame received while the client socket is open is answered
\* with exactly one pong frame on that socket and nothing else: no event goes
\* upstream, no other client is sent anything, and the session's lifecycle
\* state is unchanged; this holds while the upstream connect is pending too.
C12_PingPong ==
    [][\A s \in Sockets :
        (Receives(s) /\ Received(s).raw = "{type:ping}" /\ readyState[s] = OPEN)
          => /\ toBrowser'[s] = Append(toBrowser[s], [type |-> "pong", text |-> ""])
             /\ \A t \in Sockets : toUpstream'[t] = toUpstream[t]
             /\ \A t \in Sockets \ {s} : toBrowser'[t] = toBrowser[t]
             /\ Lifecycle(s)' = Lifecycle(s)
      ]_vars

\* C12 witness: a ping that arrived while the upstream connect was pending
\* was answered with a pong, and so was one that arrived on the connected
\* session; nothing went upstream.
C12_Witness ==
    \E s \in Sockets :
        /\ Len(inbox[s]) = 2
        /\ inbox[s][1].raw = "{type:ping}" /\ inbox[s][1].pending
        /\ inbox[s][2].raw = "{type:ping}" /\ inbox[s][2].connected
        /\ toBrowser[s][1] = [type |-> "pong", text |-> ""]
        /\ Cardinality(HasType("pong", toBrowser[s])) = 2
        /\ toUpstream[s] = <<>>

\* A complete response: text deltas, then text-done, then response-done.
IsCompleteResponse(q) ==
    /\ Len(q) >= 2
    /\ q[Len(q)].type = "response.done"
    /\ q[Len(q) - 1].type = "response.text.done"
    /\ \A i \in 1 .. Len(q) - 2 : q[i].type = "response.text.delta"

\* The frames the claim expects for the events of a response.
RECURSIVE ClaimedFrames(_)
ClaimedFrames(q) ==
    IF q = <<>> THEN <<>>
    ELSE << [type |-> CASE Head(q).type = "response.text.delta" -> "text.delta"
                        [] Head(q).type = "response.text.done" -> "assistant.message"
                        [] OTHER -> "response.done",
             text |-> Head(q).text] >>
         \o ClaimedFrames(Tail(q))

\* C13 (as claimed): when the upstream has streamed a complete response to a
\* session whose client socket is open, the client has been sent, after the
\* two connection frames, one `text.delta` frame per delta with the same
\* content in the same order, then `assistant.message` with the full text,
\* then one `response.done`, and nothing else.
C13_StreamRelayedInOrder ==
    \A s \in Sockets :
        (pc[s] = "serving" /\ CanSend(s) /\ IsCompleteResponse(upEvents[s]))
          => toBrowser[s] =
                << [type |-> "openai_connected", text |-> ""],
                   [type |-> "connected", text |-> ""] >>
                \o ClaimedFrames(upEvents[s])

\* C14: a response.text.done event carrying text S on a session that can
\* write to its client appends an `assistant.message` frame with text
\* exactly S (followed by `response.done`), and a client that has handled
\* the frames up to that `assistant.message` holds exactly S as its
\* accumulated assistant text, whatever deltas came before.
C14_DoneTextIsAuthoritative ==
    [][\A s \in Sockets :
        ( /\ Len(upEvents'[s]) = Len(upEvents[s]) + 1
          /\ upEvents'[s][Len(upEvents'[s])].type = "response.text.done"
          /\ CanSend(s) )
          => LET S == upEvents'[s][Len(upEvents'[s])].text
                 n == Len(toBrowser[s])
             IN  /\ toBrowser'[s] =
                       toBrowser[s] \o << [type |-> "assistant.message", text |-> S],
                                          [type |-> "response.done", text |-> ""] >>
                 /\ currentAssistantMessage(SubSeq(toBrowser'[s], 1, n + 1)) = S
      ]_vars

\* C14 witness: two deltas "x" and "y" were followed by text-done "T"; the
\* client was sent `assistant.message` with "T" and holds "T" after it.
C14_Witness ==
    \E s \in Sockets :
        /\ upEvents[s] = << [type |-> "response.text.delta", text |-> "x"],
                            [type |-> "response.text.delta", text |-> "y"],
                            [type |-> "response.text.done", text |-> "T"] >>
        /\ Len(toBrowser[s]) = 6
        /\ toBrowser[s][5] = [type |-> "assistant.message", text |-> "T"]
        /\ currentAssistantMessage(SubSeq(toBrowser[s], 1, 5)) = "T"

\* A step of Spec that is not the upstream's answer to the handshake of s.
WithoutAnswer(s) ==
    \E t \in Sockets :
        \/ Accept(t)
        \/ t # s /\ (ConnectSucceed(t) \/ ConnectFail(t))
        \/ \E raw \in PairFrames : BrowserMessage(t, raw)
        \/ BrowserError(t)
        \/ BrowserClose(t)
        \/ \E ev \in PairEvents : UpstreamEvent(t, ev)
        \/ UpstreamClose(t)

\* C15 (as claimed): a handshake does not depend on the upstream to end:
\* while a session awaits its upstream connect, some step other than the
\* upstream's answer (a timeout) can take it out of the handshake.
C15_HandshakeTimesOut ==
    \A s \in Sockets :
        pc[s] = "awaiting" =>
            ENABLED (WithoutAnswer(s) /\ pc'[s] # "awaiting")

\* The event a step appends to a session's upstream history.
Emitted(s) == upEvents'[s][Len(upEvents'[s])]

Emits(s) == Len(upEvents'[s]) = Len(upEvents[s]) + 1

\* C16 (as claimed): every tool_approval_requested event on a session's
\* upstream is answered with approve() for its approval item, and no frame
\* is sent to the client for it.
C16_ToolAutoApproved ==
    [][\A s \in Sockets :
        (Emits(s) /\ Emitted(s).type = "tool_approval_requested")
          => /\ approved'[s] = Append(approved[s], Emitted(s).text)
             /\ toBrowser'[s] = toBrowser[s]
      ]_vars

\* The session is active: handshake done, client socket writable, upstream
\* connected.
Active(s) ==
    /\ pc[s] = "serving" /\ CanSend(s)
    /\ isConnected[s] /\ realtimeSession[s] /\ upstream[s] = "open"

\* C17: an upstream error event on an active session sends the client
\* exactly one error frame and changes nothing else: the session stays
\* active with both connections open and nothing goes upstream; a client
\* message that arrives after the error is forwarded upstream as usual.
C17_UpstreamErrorReported ==
    [][\A s \in Sockets :
        /\ (Emits(s) /\ Emitted(s).type = "error" /\ Active(s))
              => /\ toBrowser'[s] =
                       Append(toBrowser[s],
                           [type |-> "error", text |-> "OpenAI API error"])
                 /\ Lifecycle(s)' = Lifecycle(s)
                 /\ Active(s)'
                 /\ toUpstream'[s] = toUpstream[s]
        /\ ( /\ Receives(s) /\ IsUserText(Received(s).raw) /\ Active(s)
             /\ HasType("error", upEvents[s]) # {} )
              => toUpstream'[s] = toUpstream[s] \o PairsOf(<<Received(s)>>)
      ]_vars

\* C17 witness: an active session got an upstream error and a client
\* message; the client has one error frame after its connection frames, the
\* message went upstream and the session is still active.
C17_Witness ==
    \E s \in Sockets :
        /\ upEvents[s] = << [type |-> "error", text |-> "e"] >>
        /\ Len(toBrowser[s]) = 3
        /\ toBrowser[s][3] = [type |-> "error", text |-> "OpenAI API error"]
        /\ Len(inbox[s]) = 1 /\ inbox[s][1].raw = "{type:message,content:'a'}"
        /\ Len(toUpstream[s]) = 2
        /\ Active(s)

\* C18 (as claimed): when transport.sendEvent throws while a client message
\* is forwarded, the exception is caught and the session moves to Closing:
\* it is no longer `connected` towards its client afterwards.
C18_ExceptionClosesSession ==
    [][\A s \in Sockets :
        ( /\ Receives(s) /\ IsUserText(Received(s).raw)
          /\ realtimeSession[s] /\ isConnected[s]
          /\ sendEventThrows(Svc(s)) )
          => status'[s] # "connected"
      ]_vars

\* C19 (as claimed): once the process has shut down, every session still in
\* the registry has been asked to close, so none is left there in status
\* `connected`.
C19_ShutdownClosesAll ==
    exited => \A s \in sessions : status[s] # "connected"

C21_UnsupportedTypesThrow ==
    /\ createdManager # <<>> =>
          /\ clientConfig.type = "webrtc"
                => createdManager[1] =
                     [threw |-> TRUE, value |-> "WebRTC not implemented yet"]
          /\ clientConfig.type \notin {"websocket", "webrtc"}
                => createdManager[1].threw
    /\ createdServer # <<>> =>
          /\ config.protocol = "webrtc"
                => createdServer[1] =
                     [threw |-> TRUE, value |-> "WebRTC server not implemented yet"]
          /\ config.protocol \notin {"websocket", "webrtc"}
                => createdServer[1].threw

\* C21 witness: a manager was asked for with an unknown type and a server
\* with protocol 'webrtc'; both calls threw.
C21_Witness ==
    /\ clientConfig.type = "http"
    /\ createdManager = <<[threw |-> TRUE,
                           value |-> "Unsupported communication type: http"]>>
    /\ config.protocol = "webrtc"
    /\ createdServer = <<[threw |-> TRUE,
                          value |-> "WebRTC server not implemented yet"]>>


\* The maximum the config states: maxReconnectAttempts, 3 when it is absent.
ConfiguredMax ==
    IF managerConfig.hasMax
    THEN managerConfig.maxReconnectAttempts
    ELSE DefaultMaxReconnectAttempts

\* Socket k closes in this step.
Closes(k) == k <= Len(sockets) /\ sockets[k] # "closed" /\ sockets'[k] = "closed"

\* Socket k opens in this step.
Opens(k) == k <= Len(sockets) /\ sockets[k] # "open" /\ sockets'[k] = "open"

\* C22: the manager schedules a reconnect only in a step that closes a socket
\* and only while reconnectAttempts is below the configured maximum; the
\* reconnects run since the last successful open never exceed that maximum;
\* a successful open sets reconnectAttempts to 0.
C22_ReconnectsBounded ==
    [][/\ timersMade' # timersMade =>
            /\ \E k \in 1..MaxSockets : Closes(k)
            /\ reconnectAttempts < ConfiguredMax
       /\ reconnectsMade' <= ConfiguredMax
       /\ (\E k \in 1..MaxSockets : Opens(k)) => reconnectAttempts' = 0]_vars

\* The connections the server accepted whose close event is not processed.
Registered == {c \in Conns : connection[c] \in {"open", "closing", "closeReceived"}}

\* C23: the client set of the WebSocketServer, as clientCount and
\* getClientIds report it, holds exactly the accepted clients whose close
\* event has not been processed.
C23_ClientSetExact ==
    /\ getClientIds = Registered
    /\ clientCount = Cardinality(Registered)

\* One client's close event is processed while another is still registered
\* with its close under way, after a third was accepted.
C23_Witness ==
    /\ connection["c1"] = "closed"
    /\ connection["c2"] = "closeReceived"
    /\ connection["c3"] = "open"

\* The latest event was a frame of client c that parses to a Message of
\* type DATA.
DataFrom(c) ==
    /\ received # <<>>
    /\ received[1].from = c
    /\ Parses(ServerParse(received[1].raw))
    /\ ServerParse(received[1].raw).type = "data"

\* What a DATA message of c makes the server send to o.
DataReplies(c, o) ==
    LET message == ServerParse(received[1].raw)
    IN  IF o = c
        THEN <<Message("data", "echo", EchoText(message.text), "server")>>
        ELSE IF message.broadcast /\ o \in clients /\ IsOpen(o)
             THEN <<Message("data", "broadcast", message.text, c)>>
             ELSE <<>>

UnparsableFrom(c) ==
    /\ received # <<>>
    /\ received[1].from = c
    /\ ~ServerParse(received[1].raw).ok

\* The ERROR message of handleClientMessage's catch block.
InvalidFormat == Message("error", "", "Invalid message format", "server")

\* Exactly one 'Invalid message format' went to c and nothing to anybody
\* else, no handler ran, and c is still open and registered.
ErrorOnly(c) ==
    /\ sent = [Quiet EXCEPT ![c] = <<InvalidFormat>>]
    /\ handlerCalls = 0
    /\ IsOpen(c)
    /\ c \in clients

PingAnswered(t) ==
    /\ BrowserMessage(t, "{type:ping}")
    /\ toBrowser'[t] = Append(toBrowser[t], Frame("pong", ""))

\* C27: while a session awaits its upstream handshake, the server can still
\* accept and register every other client that connects and still answers
\* the pings of every other client whose socket is open: no pending
\* handshake delays another session.
C27_PendingHandshakeDelaysNobody ==
    \A s \in Sockets : \A t \in Sockets \ {s} :
        pc[s] = "awaiting" =>
            /\ pc[t] = "idle" => ENABLED Accept(t)
            /\ CanSend(t) => ENABLED PingAnswered(t)

\* One session still awaits its handshake while the other is registered,
\* finished its own handshake and had a ping answered.
C27_Witness ==
    \E s \in Sockets : \E t \in Sockets \ {s} :
        /\ pc[s] = "awaiting"
        /\ pc[t] = "serving"
        /\ t \in sessions
        /\ inbox[t] # <<>>
        /\ inbox[t][Len(inbox[t])].raw = "{type:ping}"
        /\ toBrowser[t] # <<>>
        /\ toBrowser[t][Len(toBrowser[t])] = Frame("pong", "")

\* The layer is given one more input in this step.
LayerReceives == Len(layerInputs') = Len(layerInputs) + 1

\* The input the layer is given in this step.
LayerReceived == layerInputs'[Len(layerInputs')]

\* C28: an upstream event whose type the relaying code does not know sends
\* the client no frame and leaves the state of the session as it was, both
\* for the listeners of BrowserChatSessionService and for the switch of
\* BrowserChatTransportLayer.send.
C28_UnknownEventIgnored ==
    [][/\ \A s \in Sockets :
            (Emits(s) /\ Emitted(s).type \notin ServiceListensTo)
              => /\ toBrowser'[s] = toBrowser[s]
                 /\ toUpstream'[s] = toUpstream[s]
                 /\ approved'[s] = approved[s]
                 /\ closeCalls'[s] = closeCalls[s]
                 /\ Lifecycle(s)' = Lifecycle(s)
       /\ (LayerReceives /\ LayerReceived.from = "upstream"
              /\ LayerReceived.what \notin LayerHandles)
              => /\ layerToBrowser' = layerToBrowser
                 /\ layerEmitted' = layerEmitted
                 /\ layerConnected' = layerConnected
                 /\ layerReadyState' = layerReadyState]_vars

\* An event of unknown type was delivered to a relay that can write to its
\* browser: an active BrowserChatSessionService or an open layer.
C28_Witness ==
    \/ /\ Active("A")
       /\ upEvents["A"] # <<>>
       /\ upEvents["A"][Len(upEvents["A"])].type = "session.updated"
    \/ /\ layerConnected /\ layerReadyState = OPEN
       /\ layerInputs # <<>>
       /\ layerInputs[Len(layerInputs)] =
              [from |-> "upstream", what |-> "session.updated"]

\* The `message` frame whose content is the empty string.
EmptyMessage == "{type:message,content:''}"

\* C30: a `message` frame whose content is the empty string results in no
\* upstream event at all, neither through BrowserChatSessionService nor
\* through BrowserChatTransportLayer.
C30_EmptyContentNotForwarded ==
    [][/\ \A s \in Sockets :
            (Receives(s) /\ Received(s).raw = EmptyMessage)
              => toUpstream'[s] = toUpstream[s]
       /\ (LayerReceives /\ LayerReceived.from = "browser"
              /\ LayerReceived.what = EmptyMessage)
              => layerEmitted' = layerEmitted]_vars

\* The empty message arrived at a relay that forwards messages: a session
\* whose upstream is connected, or a layer whose socket is open.
C30_Witness ==
    \/ /\ Active("A")
       /\ inbox["A"] # <<>>
       /\ inbox["A"][Len(inbox["A"])].raw = EmptyMessage
       /\ inbox["A"][Len(inbox["A"])].connected
    \/ /\ layerConnected /\ layerReadyState = OPEN
       /\ layerInputs # <<>>
       /\ layerInputs[Len(layerInputs)] =
              [from |-> "browser", what |-> EmptyMessage]

\* The ChatUI handles one more frame in this step.
UIHandles == Len(handled') = Len(handled) + 1

\* The frame the ChatUI handles in this step.
UIHandled == handled'[Len(handled')]

\* C29: handling a response.done frame resets the ChatUI's accumulator to
\* the empty string; handling an error frame leaves the accumulator as it
\* was.
C29_ResetOnDoneKeptOnError ==
    [][/\ (UIHandles /\ UIHandled.type = "response.done")
            => assistantMessage' = ""
       /\ (UIHandles /\ UIHandled.type = "error")
            => assistantMessage' = assistantMessage]_vars

\* A response.done reset a non-empty accumulator, and a later error frame
\* left the text accumulated since then in place.
C29_Witness ==
    /\ handled = <<Frame("assistant.message", "T"), Frame("response.done", ""),
                   DeltaFrame("x"), Frame("error", "e")>>
    /\ assistantMessage = "x"

\* C31 (as claimed): getActiveSessionCount() is the number of the sessions
\* created through createTwilioSession that have not been cleaned up.
C31_CountsLiveTwilioSessions ==
    getActiveSessionCount = Cardinality(twilioCreated \ twilioCleaned)

\* C32 (as claimed): in the transport-layer variant every tool approval
\* request is approved exactly once: no two handlers of the session both call
\* approve for it, so the approve() calls are the requests, one for one.
C32_ApprovedExactlyOnce == approveCalls = requested


C34_DestroyedStaysQuiet ==
    [][uiDestroyed =>
          /\ UIPendingTimers' = {}
          /\ ~UIReconnectClick => Len(uiSockets') = Len(uiSockets)]_vars


\* C36 (as claimed): a ChatUI never has two WebSockets that are connecting or
\* open at the same time.
C36_OneSocketAtATime ==
    Cardinality({k \in 1..Len(uiSockets) :
                    uiSockets[k] \in {"connecting", "open"}}) <= 1

\* The timers a step has added.
UINewTimers == {t \in 1..Len(uiTimers') : t > Len(uiTimers)}

\* C37: reconnectAttempts never exceeds maxReconnectAttempts; a socket's open
\* resets it to 0; a close that finds it at the maximum schedules no
\* reconnect; the timer of attempt n waits min(1000 * 2^n, 30000) ms.
C37_BoundedBackoff ==
    [][/\ uiReconnectAttempts' <= maxReconnectAttempts
       /\ (\E k \in 1..Len(uiSockets) :
              uiSockets[k] = "connecting" /\ uiSockets'[k] = "open")
            => uiReconnectAttempts' = 0
       /\ uiReconnectAttempts = maxReconnectAttempts => UINewTimers = {}
       /\ \A t \in UINewTimers :
             /\ uiTimers'[t].attempt = uiReconnectAttempts'
             /\ uiTimers'[t].attempt = uiReconnectAttempts + 1
             /\ uiTimers'[t].delay =
                   CHOOSE d \in {1000 * 2^(uiTimers'[t].attempt), 30000} :
                       /\ d <= 1000 * 2^(uiTimers'[t].attempt)
                       /\ d <= 30000
      ]_vars

\* C37 witness: five reconnects were scheduled with the delays 2, 4, 8, 16
\* and 30 seconds, all fired, and the close of the sixth socket found the
\* counter at the maximum and scheduled nothing.
C37_Witness ==
    /\ uiReconnectAttempts = maxReconnectAttempts
    /\ Len(uiSockets) = 6
    /\ \A k \in 1..6 : uiSockets[k] = "closed"
    /\ Len(uiTimers) = 5
    /\ UIPendingTimers = {}
    /\ uiTimers[4].delay = 16000
    /\ uiTimers[5].delay = 30000
    /\ ~uiDestroyed


\* C35 (as claimed): from disconnect() until the application calls connect()
\* again (this.ws is null all that time), no reconnect timer is set, no
\* reconnect timer fires into a new socket, and isConnected stays false.
C35_QuietAfterDisconnect ==
    [][(ws = 0 /\ sockets # <<>> /\ ~Connect)
          => /\ timersMade' = timersMade
             /\ Len(sockets') = Len(sockets)
             /\ ~managerConnected']_vars


\* C38: a sendToClient for an id that is not in the client set, or whose
\* connection is not open, throws, sends nothing to anybody and leaves the
\* client set as it was.
C38_SendToClientFails ==
    [][\A c \in Conns :
          (/\ sendToClientCall' # <<>>
           /\ sendToClientCall'[1].to = c
           /\ (c \notin clients \/ ~IsOpen(c)))
              => /\ sendToClientCall'[1].error # ""
                 /\ sent' = Quiet
                 /\ clients' = clients]_vars

\* C38 witness: a call for a client whose connection is closing has thrown
\* and sent nothing, while another id is not in the client set.
C38_Witness ==
    /\ sendToClientCall # <<>>
    /\ sendToClientCall[1].error = "connection not open"
    /\ sendToClientCall[1].to \in clients
    /\ connection[sendToClientCall[1].to] = "closing"
    /\ sent = Quiet
    /\ \E o \in Conns : o \notin clients


\* C39: an emit calls every handler registered for the event once per
\* registration, in registration order, whether or not a handler throws, and
\* does not throw itself.
C39_EmitCallsEveryHandler ==
    lastEmit # <<>> =>
        /\ lastEmit[1].invoked = eventHandlers[lastEmit[1].event]
        /\ ~lastEmit[1].threw

\* C39 witness: a throwing handler was registered before another one, and
\* the emit called both.
C39_Witness ==
    /\ lastEmit # <<>>
    /\ lastEmit[1].invoked = <<"bad", "ok1">>
    /\ lastEmit[1].caught = 1
    /\ emitterClass = "CommunicationManager"

=============================================================================
